---------------------------- MODULE Spec2Model ----------------------------
(***************************************************************************)
(* A model of the posish shell core: the variable store with its scoped    *)
(* locals (src/src/variables.c), the positional parameters, the executor's *)
(* tree walk (src/src/executor.c), command resolution, and the redirection *)
(* engine (src/src/redirection.c).  Each subsystem has its own             *)
(* specification over the shared state; the variables a specification does *)
(* not use keep their initial values.                                      *)
(***************************************************************************)
EXTENDS Integers, Sequences, FiniteSets, TLC

(***************************************************************************)
(* Bounds of the model.                                                    *)
(***************************************************************************)
MaxScopeDepth == 2
MaxLocals == 2
MaxOps == 6
MaxArgs == 2
MaxBlocks == 3
MaxCallDepth == 2

(***************************************************************************)
(* Variable flags, include/variables.h.                                    *)
(***************************************************************************)
VEXPORT == "VEXPORT"
VREADONLY == "VREADONLY"
VUNSET == "VUNSET"
VSTRUCTFIXED == "VSTRUCTFIXED"

\* The value pointer NULL of an unset statically allocated variable.
Null == "<NULL>"

\* Names of the model: two ordinary names and one of the statically
\* allocated special variables that posish_var_init enters in the table.
DynNames == {"x", "y"}
FixedNames == {"IFS"}
Names == DynNames \cup FixedNames
Values == {"a"}

\* A slot of the hash table: no struct var of that name, or its value and flags.
NoVar == [there |-> FALSE, value |-> Null, flags |-> {}]
MkVar(v, f) == [there |-> TRUE, value |-> v, flags |-> f]

VARIABLES
    vartab,     \* name -> slot: the chains of vartab[] keyed by name
    scopes,     \* current_scope and its parents, innermost first
    crashed,    \* the process died on a use of freed memory
    diag,       \* the last store operation wrote a diagnostic to stderr
    nops        \* store operations run so far

\* The positional parameters (variables.c, "Positional parameters implementation")
VARIABLES
    heap,               \* block -> [live, data]: one malloc'ed argument vector with its strings
    positional_args,    \* the block positional_args points to, 0 for NULL
    positional_count,
    calls               \* the PositionalSave of every function call in progress, innermost first

\* The executor (executor.c) and the errexit flags of shell_options.c
VARIABLES
    prog,       \* the AST being executed: node id -> ASTNode
    stack,      \* the active executor_execute calls, outermost first
    ret,        \* the status the last completed executor_execute returned
    sh,         \* the globals: last_exit_status, func_return_status, ...
    exited,     \* the shell process has called exit
    exit_code,  \* with this status
    tag,        \* ret is the failure of a command run where -e is ignored
    pend,       \* the break, continue or return that is propagating
    c4          \* what the last errexit decision was taken on

\* The resolution of a simple command (execute_simple_command)
VARIABLES
    funcs,      \* the names in the function table
    ran         \* the last simple command: what ran, with which environment

\* The file descriptors of the shell process (redirection.c and the
\* in-process commands of execute_simple_command)
VARIABLES
    fdtab,      \* descriptor -> the open file it refers to, Closed if none
    rpc,        \* where the command in progress is: idle, saved, applied, ran, failed
    redirs,     \* its redirection list
    saved,      \* saved_stdin, saved_stdout, saved_stderr
    fd_before   \* the descriptor table when the command started

\* A simple command with redirections, whatever it resolves to
VARIABLES
    simple      \* the last one: its name, what was written and run, its status

\* Signals and traps (signals.c) and the control stack of the main flow
VARIABLES
    trap_commands,              \* signal -> the action string, Null for none
    pending_signals,            \* signal -> 0 or 1
    any_pending_signal,
    signals_ignored_on_entry,   \* signal -> 0 or 1
    disposition,                \* signal -> what sigaction has installed
    got_sigint,
    ctl,        \* the calls in progress: executor_execute and signal_check_pending
    owed,       \* signal -> the delivery whose trap action has not run yet
    lost,       \* how a hook call returned and left such a delivery without its action
    served,     \* the deepest nesting at which an owed action has been started
    exit_ran,   \* the action of the EXIT trap has been started
    ndeliv,     \* signals delivered so far
    nmain       \* top-level commands started so far

\* SIGINT while the executor walks the tree
VARIABLES
    intr        \* SIGINTs so far, and the loops that were in progress at one

\* main on a command string (main.c) with the parser (parser.c)
VARIABLES
    parse       \* the tokens of the string, the tree, what was run and reported

\* the set builtin (builtin-cmds/set.c)
VARIABLES
    setcmd,     \* the last set command: its arguments and the operation it was
    expn,       \* a word expansion: the positional parameters, the word, the fields
    twin        \* a program and how it ended with set -e and without

\* main on an input with its shortcut and on the same input without it
VARIABLES
    fast        \* the characters of the input and the two outcomes

\* the function table (functions.c) and the calls of its functions
VARIABLES
    fn        \* name -> body, the bodies on the heap, the calls in progress

\* the children of the shell in the read loop of main (main.c, jobs.c, executor.c)
VARIABLES
    kids        \* the children, the job table, $! and the command that waits

\* the parser reading a here-document
VARIABLES
    hd        \* the lexer, the lookahead token and what was parsed

varsV == <<vartab, scopes, crashed, diag, nops>>
varsP == <<heap, positional_args, positional_count, calls, crashed, nops>>
varsE == <<prog, stack, ret, sh, exited, exit_code, tag, pend, c4>>
varsC == <<funcs, ran>>
varsR == <<fdtab, rpc, redirs, saved, fd_before>>
varsS == <<simple>>
varsT == <<trap_commands, pending_signals, any_pending_signal, signals_ignored_on_entry,
           disposition, got_sigint, ctl, owed, lost, served, exit_ran, ndeliv, nmain>>
varsI == <<intr>>
\* the variables of the sections after the signals
varsY == <<fast, fn, kids, hd>>
varsX == <<parse, setcmd, expn, twin, varsY>>
\* the variables of the later sections
more == <<varsS, varsT, varsI, varsX>>
vars == <<vartab, scopes, crashed, diag, nops, heap, positional_args, positional_count, calls, varsE, varsC, varsR, more>>
\* the variables each specification leaves alone
restV == <<heap, positional_args, positional_count, calls, varsE, varsC, varsR, more>>
restP == <<vartab, scopes, diag, varsE, varsC, varsR, more>>
restE == <<varsV, heap, positional_args, positional_count, calls, varsC, varsR, more>>
restC == <<heap, positional_args, positional_count, calls, varsE, varsR, more>>
restR == <<vartab, scopes, crashed, diag, heap, positional_args, positional_count, calls, varsE, varsC, more>>
restS == <<vartab, scopes, crashed, diag, heap, positional_args, positional_count, calls, varsE, ran,
           rpc, redirs, saved, fd_before, varsT, varsI, varsX>>
restT == <<varsV, heap, positional_args, positional_count, calls, prog, stack, ret, tag, pend, c4,
           varsC, varsR, varsS, varsI, varsX>>
restM == <<vartab, scopes, crashed, diag, nops, heap, positional_args, positional_count,
           calls, varsE, varsC, varsR, varsS, varsT, varsI, setcmd, expn, twin, varsY>>
\* the variables of the sections up to the two executions of one program
restY == <<vartab, scopes, crashed, diag, nops, heap, positional_args, positional_count,
           calls, varsE, varsC, varsR, varsS, varsT, varsI, parse, setcmd, expn, twin>>
\* what the loops of the executor leave alone: they test and reset got_sigint
restL == <<varsV, heap, positional_args, positional_count, calls, varsC, varsR, varsS,
           trap_commands, pending_signals, any_pending_signal, signals_ignored_on_entry,
           disposition, ctl, owed, lost, served, exit_ran, ndeliv, nmain, varsI, varsX>>
\* what each of the later sections leaves alone
rest_fast == <<restY, fn, kids, hd>>
rest_fn == <<restY, fast, kids, hd>>
rest_kids == <<restY, fast, fn, hd>>
rest_hd == <<restY, fast, fn, kids>>

\* posish_var_get_value: the value, NULL for a missing or VUNSET variable.
posish_var_get_value(tab, name) ==
    IF tab[name].there /\ VUNSET \notin tab[name].flags THEN tab[name].value ELSE Null

posish_var_is_readonly(tab, name) ==
    tab[name].there /\ VREADONLY \in tab[name].flags

\* posish_var_set: rc 1 and a diagnostic on a readonly variable, otherwise the
\* value is replaced (VUNSET cleared) or a new struct var with no flags is made.
posish_var_set(tab, name, value) ==
    IF tab[name].there
    THEN IF VREADONLY \in tab[name].flags
         THEN [tab |-> tab, rc |-> 1, diag |-> TRUE]
         ELSE [tab |-> [tab EXCEPT ![name] = MkVar(value, @.flags \ {VUNSET})],
               rc |-> 0, diag |-> FALSE]
    ELSE [tab |-> [tab EXCEPT ![name] = MkVar(value, {})], rc |-> 0, diag |-> FALSE]

\* free(v) of a heap struct var: every localvar whose vp is that struct dangles.
MarkFreed(lvs, name) ==
    [i \in 1..Len(lvs) |-> IF lvs[i].name = name THEN [lvs[i] EXCEPT !.freed = TRUE] ELSE lvs[i]]

MarkFreedScopes(scs, name) ==
    [i \in 1..Len(scs) |-> [scs[i] EXCEPT !.locals = MarkFreed(@, name)]]

\* posish_var_unset: refused with a diagnostic on a readonly variable; a
\* VSTRUCTFIXED variable keeps its struct (value NULL, VUNSET); any other is
\* unlinked and freed.
posish_var_unset(tab, name) ==
    IF ~tab[name].there THEN [tab |-> tab, diag |-> FALSE, freed |-> FALSE]
    ELSE IF VREADONLY \in tab[name].flags THEN [tab |-> tab, diag |-> TRUE, freed |-> FALSE]
    ELSE IF VSTRUCTFIXED \in tab[name].flags
         THEN [tab |-> [tab EXCEPT ![name] = MkVar(Null, @.flags \cup {VUNSET})],
               diag |-> FALSE, freed |-> FALSE]
         ELSE [tab |-> [tab EXCEPT ![name] = NoVar], diag |-> FALSE, freed |-> TRUE]

posish_var_export(tab, name) ==
    IF tab[name].there THEN [tab EXCEPT ![name].flags = @ \cup {VEXPORT}] ELSE tab

posish_var_set_readonly(tab, name) ==
    IF tab[name].there THEN [tab EXCEPT ![name].flags = @ \cup {VREADONLY}] ELSE tab

\* What the use of a dangling vp can do: the allocator's check aborts the
\* process, the freed block still holds the old bytes, or the block has been
\* handed out again to the struct var now entered under that name.
UBOutcomes == {"crash", "stale", "reused"}

\* The loop of posish_var_pop_scope over the frame's localvar list, newest
\* first.  outer: the enclosing scopes, whose localvars a free() may orphan.
RECURSIVE PopLocals(_, _, _, _, _)
PopLocals(tab, lvs, outer, ub, dead) ==
    IF lvs = <<>> THEN [tab |-> tab, outer |-> outer, crashed |-> dead]
    ELSE LET lv == Head(lvs)
             rest == Tail(lvs)
         IN IF lv.freed /\ ub = "crash"
            THEN [tab |-> tab, outer |-> outer, crashed |-> TRUE]
            ELSE IF lv.is_new
            THEN LET u == posish_var_unset(tab, lv.name)
                 IN PopLocals(u.tab,
                              IF u.freed THEN MarkFreed(rest, lv.name) ELSE rest,
                              IF u.freed THEN MarkFreedScopes(outer, lv.name) ELSE outer,
                              ub, dead)
            ELSE IF lv.freed /\ (ub = "stale" \/ ~tab[lv.name].there)
            THEN PopLocals(tab, rest, outer, ub, dead)
            ELSE PopLocals([tab EXCEPT ![lv.name] = MkVar(lv.value, lv.flags)],
                           rest, outer, ub, dead)

\* The store as a program can observe it: per name, set or not, value, flags.
View(tab) == tab

\* The names whose first `local` in the frame found them as the push left them.
RECURSIVE FirstDecl(_, _)
FirstDecl(lvs, name) ==
    \* the oldest localvar of that name (the list is newest first)
    IF lvs = <<>> THEN <<>>
    ELSE LET r == FirstDecl(Tail(lvs), name)
         IN IF r # <<>> THEN r
            ELSE IF Head(lvs).name = name THEN <<Head(lvs)>> ELSE <<>>

SavedView(lv) == IF lv.is_new THEN NoVar ELSE MkVar(lv.value, lv.flags)

DeclaredAtEntry(sc) ==
    {n \in Names : FirstDecl(sc.locals, n) # <<>>
                   /\ SavedView(FirstDecl(sc.locals, n)[1]) = sc.pre[n]}

InitStore ==
    /\ vartab = [n \in Names |->
                   IF n \in FixedNames THEN MkVar("a", {VSTRUCTFIXED, VEXPORT}) ELSE NoVar]
    /\ scopes = <<>>
    /\ crashed = FALSE
    /\ diag = FALSE
    /\ nops = 0

InitPositional ==
    /\ heap = [b \in 1..MaxBlocks |-> [live |-> FALSE, data |-> <<>>]]
    /\ positional_args = 0
    /\ positional_count = 0
    /\ calls = <<>>

\* name=value, and every other caller of posish_var_set
VarSet(name, value) ==
    /\ ~crashed
    /\ nops < MaxOps
    /\ nops' = nops + 1
    /\ UNCHANGED restV
    /\ LET r == posish_var_set(vartab, name, value)
       IN /\ vartab' = r.tab
          /\ diag' = r.diag
    /\ UNCHANGED <<scopes, crashed>>

\* unset name (builtin_unset)
VarUnset(name) ==
    /\ ~crashed
    /\ nops < MaxOps
    /\ nops' = nops + 1
    /\ UNCHANGED restV
    /\ LET r == posish_var_unset(vartab, name)
       IN /\ vartab' = r.tab
          /\ scopes' = IF r.freed THEN MarkFreedScopes(scopes, name) ELSE scopes
          /\ diag' = r.diag
    /\ UNCHANGED crashed

\* export name
VarExport(name) ==
    /\ ~crashed
    /\ nops < MaxOps
    /\ nops' = nops + 1
    /\ UNCHANGED restV
    /\ vartab' = posish_var_export(vartab, name)
    /\ diag' = FALSE
    /\ UNCHANGED <<scopes, crashed>>

\* readonly name (builtin_readonly without a value): "not found" for a name
\* posish_var_get does not find, otherwise the flag is set
VarReadonly(name) ==
    /\ ~crashed
    /\ nops < MaxOps
    /\ nops' = nops + 1
    /\ UNCHANGED restV
    /\ IF posish_var_get_value(vartab, name) = Null
       THEN /\ vartab' = vartab
            /\ diag' = TRUE
       ELSE /\ vartab' = posish_var_set_readonly(vartab, name)
            /\ diag' = FALSE
    /\ UNCHANGED <<scopes, crashed>>

\* posish_var_push_scope, at a function call
PushScope ==
    /\ ~crashed
    /\ nops < MaxOps
    /\ nops' = nops + 1
    /\ UNCHANGED restV
    /\ Len(scopes) < MaxScopeDepth
    /\ scopes' = <<[locals |-> <<>>, pre |-> View(vartab)]>> \o scopes
    /\ diag' = FALSE
    /\ UNCHANGED <<vartab, crashed>>

\* posish_var_declare_local (builtin_local: the value "" when none is given)
DeclareLocal(name, value) ==
    /\ ~crashed
    /\ nops < MaxOps
    /\ nops' = nops + 1
    /\ UNCHANGED restV
    /\ IF scopes = <<>>
       THEN LET r == posish_var_set(vartab, name, value)
            IN /\ vartab' = r.tab
               /\ scopes' = scopes
               /\ diag' = r.diag
       ELSE /\ Len(scopes[1].locals) < MaxLocals
            /\ LET v == vartab[name]
                   lv == IF v.there
                         THEN [name |-> name, flags |-> v.flags, value |-> v.value,
                               is_new |-> FALSE, freed |-> FALSE]
                         ELSE [name |-> name, flags |-> {}, value |-> Null,
                               is_new |-> TRUE, freed |-> FALSE]
               IN /\ vartab' = IF v.there
                               THEN [vartab EXCEPT ![name] =
                                        MkVar(value, v.flags \ {VEXPORT, VREADONLY})]
                               ELSE posish_var_set(vartab, name, value).tab
                  /\ scopes' = [scopes EXCEPT ![1].locals = <<lv>> \o @]
                  /\ diag' = FALSE
    /\ UNCHANGED crashed

\* posish_var_pop_scope, at the function's return
PopScope(ub) ==
    /\ ~crashed
    /\ nops < MaxOps
    /\ nops' = nops + 1
    /\ UNCHANGED restV
    /\ scopes # <<>>
    /\ LET r == PopLocals(vartab, scopes[1].locals, Tail(scopes), ub, FALSE)
       IN /\ vartab' = r.tab
          /\ scopes' = r.outer
          /\ crashed' = r.crashed
    /\ diag' = FALSE

NextVars ==
    \/ \E n \in Names, v \in Values : VarSet(n, v)
    \/ \E n \in Names : VarUnset(n)
    \/ \E n \in Names : VarExport(n)
    \/ \E n \in Names : VarReadonly(n)
    \/ PushScope
    \/ \E n \in Names, v \in Values \cup {""} : DeclareLocal(n, v)
    \/ \E ub \in UBOutcomes : PopScope(ub)


\* A step of posish_var_pop_scope that returned.
IsPopStep == Len(scopes') < Len(scopes) /\ ~crashed'

\* C1: when a function-call frame is popped, every name that was declared
\* local in it (and that the frame had not touched before the declaration) has
\* again the value and flags, or the non-existence, it had immediately before
\* the frame was pushed, whatever assignments, unsets, readonly and export
\* marks and nested frames ran on it in between.
C1_PopRestoresLocals ==
    [][IsPopStep =>
          \A n \in DeclaredAtEntry(scopes[1]) : View(vartab')[n] = scopes[1].pre[n]]_vars

\* C2: a variable that carries the readonly flag keeps its value and stays in
\* the store across every assignment, unset and `local` declaration (every
\* step other than a frame pop).
C2_ReadonlyNeverChanges ==
    [][\A n \in Names :
          (posish_var_is_readonly(vartab, n) /\ Len(scopes') >= Len(scopes))
             => (vartab'[n].there /\ vartab'[n].value = vartab[n].value)]_vars

(***************************************************************************)
(* Positional parameters and the function call's save and restore of them  *)
(* (variables.c 456-553, executor.c 1409-1431).                            *)
(***************************************************************************)
ArgVectors == UNION {[1..k -> Values \cup {"b"}] : k \in 0..MaxArgs}

Blocks == 1..MaxBlocks

\* positional_args points to a freed vector
Dangling(h, cur) == cur # 0 /\ ~h[cur].live

\* What reading or freeing through a pointer to a freed block can do.
FreedUse == {"crash", "stale"}

\* free() of an argument vector and its strings; what the block holds
\* afterwards is indeterminate
Free(h, b) == [h EXCEPT ![b] = [live |-> FALSE, data |-> <<>>]]

\* posish_var_set_positional: free the current vector, then copy argv into a
\* new one (none for argc = 0).  nb: the block malloc returns, any that is not
\* live; ub: what free() of an already freed vector does.
posish_var_set_positional(h, cur, argv, nb, ub) ==
    LET dangling == Dangling(h, cur)
        h1 == IF cur # 0 /\ h[cur].live THEN Free(h, cur) ELSE h
    IN IF dangling /\ ub = "crash"
       THEN [heap |-> h, args |-> cur, count |-> Len(argv), crashed |-> TRUE]
       ELSE IF argv = <<>>
       THEN [heap |-> h1, args |-> 0, count |-> 0, crashed |-> FALSE]
       ELSE [heap |-> [h1 EXCEPT ![nb] = [live |-> TRUE, data |-> argv]],
             args |-> nb, count |-> Len(argv), crashed |-> FALSE]

\* The blocks malloc can return once cur has been freed (when nothing is
\* allocated, or no freed pointer is used, the choice is immaterial and fixed).
CanAlloc(h, cur, nb) == ~h[nb].live \/ nb = cur

Choice(h, cur, allocs, nb, ub) ==
    /\ IF allocs THEN CanAlloc(h, cur, nb) ELSE nb = 1
    /\ Dangling(h, cur) \/ ub = "stale"

\* the strings a vector holds, as far as count reaches
Shifted(data, n, count) ==
    [i \in 1..(count - n) |-> IF i + n <= Len(data) THEN data[i + n] ELSE "?"]

PositionalSave == [args |-> positional_args, count |-> positional_count]

\* set [--] arg...  (builtin_set): with no operand left the function returns
\* before it reaches posish_var_set_positional
PosSet(argv) ==
    /\ ~crashed
    /\ nops < MaxOps
    /\ nops' = nops + 1
    /\ \E nb \in Blocks, ub \in FreedUse :
          /\ Choice(heap, positional_args, argv # <<>>, nb, ub)
          /\ IF argv = <<>>
             THEN UNCHANGED <<heap, positional_args, positional_count, crashed>>
             ELSE LET r == posish_var_set_positional(heap, positional_args, argv, nb, ub)
                  IN /\ heap' = r.heap
                     /\ positional_args' = r.args
                     /\ positional_count' = r.count
                     /\ crashed' = r.crashed
    /\ UNCHANGED <<calls, restP>>

\* shift n  (builtin_shift, posish_var_shift_positional)
PosShift(n) ==
    /\ ~crashed
    /\ nops < MaxOps
    /\ nops' = nops + 1
    /\ IF n > positional_count
       THEN UNCHANGED <<heap, positional_args, positional_count, crashed>>
       ELSE \E nb \in Blocks, ub \in FreedUse :
              LET dangling == Dangling(heap, positional_args)
                  new_count == positional_count - n
                  old == IF positional_args # 0 THEN heap[positional_args].data ELSE <<>>
                  h1 == IF positional_args # 0 THEN Free(heap, positional_args) ELSE heap
              IN /\ Choice(heap, positional_args, new_count > 0, nb, ub)
                 /\ IF dangling /\ ub = "crash"
                    THEN /\ crashed' = TRUE
                         /\ UNCHANGED <<heap, positional_args, positional_count>>
                    ELSE /\ crashed' = FALSE
                         /\ positional_count' = new_count
                         /\ IF new_count > 0
                            THEN /\ heap' = [h1 EXCEPT ![nb] =
                                        [live |-> TRUE,
                                         data |-> Shifted(old, n, positional_count)]]
                                 /\ positional_args' = nb
                            ELSE /\ heap' = h1
                                 /\ positional_args' = 0
    /\ UNCHANGED <<calls, restP>>

\* a function call, up to the start of the body: the pointer and the count
\* are saved, then posish_var_set_positional(argc - 1, argv + 1) runs
PosCall(argv) ==
    /\ ~crashed
    /\ nops < MaxOps
    /\ nops' = nops + 1
    /\ Len(calls) < MaxCallDepth
    /\ \E nb \in Blocks, ub \in FreedUse :
          /\ Choice(heap, positional_args, argv # <<>>, nb, ub)
          /\ LET r == posish_var_set_positional(heap, positional_args, argv, nb, ub)
                 snap == IF positional_args # 0 THEN heap[positional_args] ELSE
                            [live |-> TRUE, data |-> <<>>]
             IN /\ heap' = r.heap
                /\ positional_args' = r.args
                /\ positional_count' = r.count
                /\ crashed' = r.crashed
                /\ calls' = <<[save |-> PositionalSave, snap |-> snap]>> \o calls
    /\ UNCHANGED restP

\* the function's return: posish_var_restore_positional_fast(saved_params)
PosReturn ==
    /\ ~crashed
    /\ nops < MaxOps
    /\ nops' = nops + 1
    /\ calls # <<>>
    /\ positional_args' = Head(calls).save.args
    /\ positional_count' = Head(calls).save.count
    /\ calls' = Tail(calls)
    /\ UNCHANGED <<heap, crashed, restP>>

NextPos ==
    \/ \E a \in ArgVectors : PosSet(a)
    \/ \E n \in 0..MaxArgs : PosShift(n)
    \/ \E a \in ArgVectors : PosCall(a)
    \/ PosReturn


\* C3: after a function call returns, the caller's positional parameters are
\* the strings that were in effect immediately before the call: the same
\* vector, still allocated, holding the same strings, and the same count.
C3_CallerPositionalsRestored ==
    [][Len(calls') < Len(calls) =>
          LET c == Head(calls)
          IN /\ positional_args' = c.save.args
             /\ positional_count' = c.save.count
             /\ c.save.args # 0 =>
                   /\ heap'[c.save.args].live
                   /\ c.snap.live
                   /\ heap'[c.save.args].data = c.snap.data]_vars


\* ---------------------------------------------------------------------------
\* The executor: executor_execute and the handlers it dispatches to, as a
\* machine over a stack of frames (one frame per active executor_execute call)
\* ---------------------------------------------------------------------------

\* the sentinel statuses of include/executor.h
EXIT_BREAK == 100
EXIT_CONTINUE == 101
EXIT_RETURN == 102
Sentinels == {EXIT_BREAK, EXIT_CONTINUE, EXIT_RETURN}

\* the status of a command that is not found
NotFound == 127

\* a program has at most MaxDepth constructs around its innermost command; a
\* for loop has MaxItems items
MaxDepth == 2
MaxItems == 2

\* a NULL child pointer
NoNode == -1

\* an ASTNode: its type, the command name (argv[0]) and numeric operand of a
\* simple command, and up to three children (node ids)
Node(t, name, n, a, b, c) ==
    [t |-> t, name |-> name, n |-> n, a |-> a, b |-> b, c |-> c]

\* node 0 of every program: a command that is neither a function nor a
\* builtin, whose status the environment decides
GenericCmd == Node("COMMAND", "cmd", 0, NoNode, NoNode, NoNode)

\* the innermost command: break n, continue n, return n, the generic command,
\* or ! cmd, which parse_pipeline and parse_simple_command read as the simple
\* command whose argv[0] is the word !
Leaves ==
    {Node("COMMAND", nm, n, NoNode, NoNode, NoNode) :
        nm \in {"break", "continue"}, n \in 1..2}
    \cup {Node("COMMAND", "return", 3, NoNode, NoNode, NoNode),
          Node("COMMAND", "!", 0, NoNode, NoNode, NoNode),
          GenericCmd}

\* the constructs around node k; the other children are node 0. A COMMAND
\* named f is a call of the function whose body (func_get) is node a.
Wrappers(k) ==
    {Node(t, "", 0, k, 0, NoNode) :
        t \in {"LIST", "AND", "OR", "WHILE", "UNTIL", "PIPELINE"}}
    \cup {Node(t, "", 0, 0, k, NoNode) :
        t \in {"LIST", "AND", "OR", "WHILE", "UNTIL", "PIPELINE"}}
    \cup {Node("IF", "", 0, k, 0, NoNode), Node("IF", "", 0, 0, k, NoNode),
          Node("IF", "", 0, 0, 0, k)}
    \cup {Node("FOR", "", MaxItems, NoNode, k, NoNode),
          Node("SUBSHELL", "", 0, k, NoNode, NoNode),
          Node("GROUP", "", 0, k, NoNode, NoNode),
          Node("COMMAND", "f", 0, k, NoNode, NoNode)}

\* the grammar has ! at the start of a pipeline only
Grammatical(p, w) == ~(p[Len(p)].name = "!" /\ w.t = "PIPELINE" /\ w.b = Len(p))

RECURSIVE Programs(_)
Programs(d) ==
    IF d = 0 THEN {<<l>> : l \in Leaves}
    ELSE LET P == Programs(d - 1)
         IN P \cup {Append(p, w) : <<p, w>> \in
                      {x \in {q \in P : Len(q) = d} \X Wrappers(d) :
                          Grammatical(x[1], x[2])}}

\* the globals of the executor and of shell_options.c; scope_depth is the
\* length of the chain from current_scope, left_by how the body of the last
\* function call that returned was left
ShInit(e) ==
    [last_exit_status |-> 0, func_return_status |-> 0,
     executor_break_count |-> 0, executor_continue_count |-> 0,
     shell_exit_on_error |-> e, shell_ignore_errexit |-> 0,
     scope_depth |-> 0, left_by |-> "none"]

NoPend == [kind |-> "none", target |-> 0, value |-> 0, how |-> "none"]

\* one activation of executor_execute: the node, the position in its
\* handler, the handler's locals (status, i, old_ignore), and for a forking
\* node the parent's globals and whether the child was made by vfork
Frame(id) ==
    [id |-> id, pc |-> "enter", st |-> 0, i |-> 0, old |-> 0,
     saved |-> ShInit(0), vf |-> FALSE, depth |-> 0]

InitExec ==
    /\ prog \in Programs(MaxDepth)
    /\ stack = <<Frame(Len(prog))>>
    /\ ret = 0
    /\ \E e \in {0, 1} : sh = ShInit(e)
    /\ exited = FALSE
    /\ exit_code = 0
    /\ tag = FALSE
    /\ pend = NoPend
    /\ c4 = "none"

InitIdleExec ==
    /\ prog = <<GenericCmd>>
    /\ stack = <<>>
    /\ ret = 0
    /\ sh = ShInit(0)
    /\ exited = FALSE
    /\ exit_code = 0
    /\ tag = FALSE
    /\ pend = NoPend
    /\ c4 = "none"


\* the frame on top of the stack is the executor_execute call that is running
Top == stack[Len(stack)]
Below == SubSeq(stack, 1, Len(stack) - 1)
NodeOf(id) == IF id = 0 THEN GenericCmd ELSE prog[id]
TopNode == NodeOf(Top.id)
At(ts, pcs) == ~exited /\ stack # <<>> /\ TopNode.t \in ts /\ Top.pc \in pcs

MaxOf(S) == IF S = {} THEN 0 ELSE CHOOSE i \in S : \A j \in S : j <= i

\* the innermost frame that waits for a forked child: the frames above it
\* run in the child process
ProcBase(stk) == MaxOf({i \in 1..Len(stk) : stk[i].pc = "wait"})

\* the innermost function call in progress in the running process
CallBase(stk) ==
    MaxOf({i \in (ProcBase(stk) + 1)..Len(stk) :
              NodeOf(stk[i].id).t = "COMMAND" /\ stk[i].pc = "body"})

\* the loops the running command is nested in, inside the running function
\* and process
EnclosingLoops(stk) ==
    {i \in (MaxOf({ProcBase(stk), CallBase(stk)}) + 1)..Len(stk) :
        NodeOf(stk[i].id).t \in {"WHILE", "UNTIL", "FOR"}}

\* the n-th innermost of them, 0 when there are fewer than n or when the
\* command is in the condition of one of the n
NthLoop(stk, n) ==
    LET L == EnclosingLoops(stk)
        C == {i \in L : Cardinality({j \in L : j >= i}) = n}
    IN IF C = {} THEN 0
       ELSE LET t == CHOOSE i \in C : TRUE
            IN IF \A j \in L : j >= t => stk[j].pc = "body" THEN t ELSE 0

\* a pipeline that the source text prefixes with !
Negated(id) ==
    /\ NodeOf(id).t = "PIPELINE"
    /\ NodeOf(NodeOf(id).a).name = "!"

\* the frame on top of stk runs where POSIX has -e ignored: under the
\* condition of an if, while or until, under the left side of && or ||, or
\* in a pipeline negated with !
Exempt(stk) ==
    \/ NodeOf(stk[Len(stk)].id).name = "!"
    \/ Negated(stk[Len(stk)].id)
    \/ \E i \in 1..(Len(stk) - 1) :
          \/ NodeOf(stk[i].id).t \in {"IF", "WHILE", "UNTIL"} /\ stk[i].pc = "cond"
          \/ NodeOf(stk[i].id).t \in {"AND", "OR"} /\ stk[i].pc = "left"
          \/ Negated(stk[i].id)

\* what becomes of the propagating break, continue or return p when the
\* stack goes from stack to stk2 and the status r2 is returned
PendAfter(p, stk2, r2) ==
    IF p.kind = "none" \/ p.how # "none" THEN p
    ELSE IF Len(stk2) < p.target
    THEN CASE p.kind = "break" ->
                IF r2 = EXIT_BREAK THEN [p EXCEPT !.how = "over"] ELSE NoPend
           [] p.kind = "continue" ->
                IF /\ NodeOf(stack[p.target].id).t = "FOR"
                   /\ stack[p.target].i >= NodeOf(stack[p.target].id).n
                   /\ r2 \notin Sentinels
                THEN NoPend ELSE [p EXCEPT !.how = "over"]
           [] OTHER ->
                IF r2 = p.value THEN NoPend ELSE [p EXCEPT !.how = "status"]
    ELSE IF /\ Len(stack) = p.target
            /\ Len(stk2) = p.target
            /\ stack[p.target].pc = "body"
            /\ stk2[p.target].pc = "top"
    THEN IF p.kind = "continue" THEN NoPend ELSE [p EXCEPT !.how = "iter"]
    ELSE p

\* exit(status) in the running process: the shell itself, or a forked child
\* whose parent then sees WEXITSTATUS. A vfork child shares the parent's
\* memory, so the parent keeps the child's globals.
ProcessExit(status, sh2, tg, p) ==
    LET base == ProcBase(stack)
    IN /\ tag' = tg
       /\ pend' = IF p.kind # "none" /\ p.how = "none"
                  THEN [p EXCEPT !.how = "exit"] ELSE p
       /\ IF base = 0
          THEN /\ exited' = TRUE
               /\ exit_code' = status % 256
               /\ stack' = <<>>
               /\ sh' = sh2
               /\ ret' = ret
          ELSE /\ stack' = [SubSeq(stack, 1, base) EXCEPT ![base].pc = "waited"]
               /\ ret' = status % 256
               /\ sh' = IF stack[base].vf THEN sh2 ELSE stack[base].saved
               /\ UNCHANGED <<exited, exit_code>>

\* the end of executor_execute: last_exit_status = status, then the errexit
\* test, then return status. cmd says that the node is a simple command or a
\* pipeline, tg that status is a failure met where -e is ignored.
Epilogue(status, sh1, tg, cmd, p) ==
    LET sh2 == [sh1 EXCEPT !.last_exit_status = status]
        quit == /\ sh2.shell_exit_on_error = 1
                /\ status # 0
                /\ sh2.shell_ignore_errexit = 0
    IN /\ c4' = IF quit /\ tg THEN "exempt_exit"
                ELSE IF ~quit /\ cmd /\ ~tg /\ status # 0 /\ sh2.shell_exit_on_error = 1
                     THEN "missed_exit"
                     ELSE c4
       /\ IF quit
          THEN ProcessExit(status, sh2, tg, p)
          ELSE /\ stack' = Below
               /\ ret' = status
               /\ sh' = sh2
               /\ tag' = tg
               /\ pend' = PendAfter(p, Below, status)
               /\ UNCHANGED <<exited, exit_code>>

\* the handler calls executor_execute(child) and will resume at f.pc
Enter(f, id, sh1) ==
    /\ stack' = Append([stack EXCEPT ![Len(stack)] = f],
                       [Frame(id) EXCEPT !.depth = sh1.scope_depth])
    /\ sh' = sh1
    /\ UNCHANGED <<ret, exited, exit_code, tag, pend, c4>>

\* the handler goes on in its own frame
Stay(f, sh1) ==
    /\ stack' = [stack EXCEPT ![Len(stack)] = f]
    /\ sh' = sh1
    /\ pend' = PendAfter(pend, [stack EXCEPT ![Len(stack)] = f], ret)
    /\ UNCHANGED <<ret, exited, exit_code, tag, c4>>

RECURSIVE is_safe_for_vfork(_)
is_safe_for_vfork(id) ==
    IF id = NoNode THEN TRUE
    ELSE LET nd == NodeOf(id)
         IN CASE nd.t = "COMMAND" -> nd.name \in {"cmd", "!"}
              [] nd.t \in {"PIPELINE", "AND", "OR", "LIST"} ->
                    is_safe_for_vfork(nd.a) /\ is_safe_for_vfork(nd.b)
              [] nd.t = "IF" ->
                    /\ is_safe_for_vfork(nd.a)
                    /\ is_safe_for_vfork(nd.b)
                    /\ is_safe_for_vfork(nd.c)
              [] nd.t \in {"SUBSHELL", "GROUP"} -> is_safe_for_vfork(nd.a)
              [] OTHER -> FALSE

\* the depth of the scope chain after posish_var_push_scope
scope_push(depth) == depth + 1

\* and after posish_var_pop_scope, which returns at once with no scope
scope_pop(depth) == IF depth = 0 THEN 0 ELSE depth - 1

\* a function call that pops no scope when its body was left by return
PopAfterBody_not_on_return(depth, status) ==
    IF status = EXIT_RETURN THEN depth ELSE scope_pop(depth)

\* the function call after executor_execute(func_body) returned status: the
\* scope is popped before the status is looked at
PopAfterBody(depth, status) == scope_pop(depth)

\* how a body that returned status was left
LeftBy(status) ==
    CASE status = EXIT_RETURN -> "return"
      [] status = EXIT_BREAK -> "break"
      [] status = EXIT_CONTINUE -> "continue"
      [] OTHER -> "normal"

\* a simple command. A function is looked up first and its body executed;
\* break, continue and return are builtins that set their global and return
\* the sentinel; any other command ends with a status of its own, and the
\* word ! names no command.
execute_simple_command ==
    /\ At({"COMMAND"}, {"enter", "body"})
    /\ LET nd == TopNode
           fail(st) == st # 0 /\ Exempt(stack)
       IN CASE Top.pc = "body" ->
                 LET status == IF ret = EXIT_RETURN
                               THEN sh.func_return_status ELSE ret
                 IN Epilogue(status,
                             [sh EXCEPT !.scope_depth = PopAfterBody(@, ret),
                                        !.left_by = LeftBy(ret)],
                             fail(status), TRUE, pend)
            [] Top.pc = "enter" /\ nd.name = "f" ->
                 Enter([Top EXCEPT !.pc = "body"], nd.a,
                       [sh EXCEPT !.scope_depth = scope_push(@)])
            [] Top.pc = "enter" /\ nd.name = "break" ->
                 LET t == NthLoop(stack, nd.n)
                     p == IF t = 0 THEN pend
                          ELSE [kind |-> "break", target |-> t,
                                value |-> 0, how |-> "none"]
                 IN Epilogue(EXIT_BREAK,
                             [sh EXCEPT !.executor_break_count = nd.n],
                             fail(EXIT_BREAK), TRUE, p)
            [] Top.pc = "enter" /\ nd.name = "continue" ->
                 LET t == NthLoop(stack, nd.n)
                     p == IF t = 0 THEN pend
                          ELSE [kind |-> "continue", target |-> t,
                                value |-> 0, how |-> "none"]
                 IN Epilogue(EXIT_CONTINUE,
                             [sh EXCEPT !.executor_continue_count = nd.n],
                             fail(EXIT_CONTINUE), TRUE, p)
            [] Top.pc = "enter" /\ nd.name = "return" ->
                 LET t == CallBase(Below)
                     p == IF t = 0 THEN pend
                          ELSE [kind |-> "return", target |-> t,
                                value |-> nd.n, how |-> "none"]
                 IN Epilogue(EXIT_RETURN,
                             [sh EXCEPT !.func_return_status = nd.n],
                             fail(EXIT_RETURN), TRUE, p)
            [] Top.pc = "enter" /\ nd.name = "!" ->
                 Epilogue(NotFound, sh, fail(NotFound), TRUE, pend)
            [] OTHER ->
                 \E st \in {0, 1} : Epilogue(st, sh, fail(st), TRUE, pend)
    /\ UNCHANGED <<prog, restE>>

execute_list ==
    /\ At({"LIST"}, {"enter", "left", "right"})
    /\ CASE Top.pc = "enter" ->
              Enter([Top EXCEPT !.pc = "left"], TopNode.a, sh)
         [] Top.pc = "left" ->
              IF ret \in Sentinels
              THEN Epilogue(ret, sh, tag, FALSE, pend)
              ELSE Enter([Top EXCEPT !.pc = "right"], TopNode.b, sh)
         [] OTHER -> Epilogue(ret, sh, tag, FALSE, pend)
    /\ UNCHANGED <<prog, restE>>

execute_if ==
    /\ At({"IF"}, {"enter", "cond", "branch"})
    /\ CASE Top.pc = "enter" ->
              Enter([Top EXCEPT !.pc = "cond", !.old = sh.shell_ignore_errexit],
                    TopNode.a, [sh EXCEPT !.shell_ignore_errexit = 1])
         [] Top.pc = "cond" ->
              LET sh1 == [sh EXCEPT !.shell_ignore_errexit = Top.old]
              IN IF ret = 0
                 THEN Enter([Top EXCEPT !.pc = "branch"], TopNode.b, sh1)
                 ELSE IF TopNode.c # NoNode
                      THEN Enter([Top EXCEPT !.pc = "branch"], TopNode.c, sh1)
                      ELSE Epilogue(0, sh1, FALSE, FALSE, pend)
         [] OTHER -> Epilogue(ret, sh, tag, FALSE, pend)
    /\ UNCHANGED <<prog, restE>>

\* what a loop does with the status of its body
AfterBody(onReturn) ==
    CASE ret = EXIT_BREAK ->
           IF sh.executor_break_count > 1
           THEN Epilogue(EXIT_BREAK,
                         [sh EXCEPT !.executor_break_count = @ - 1],
                         FALSE, FALSE, pend)
           ELSE Epilogue(0, sh, FALSE, FALSE, pend)
      [] ret = EXIT_CONTINUE ->
           IF sh.executor_continue_count > 1
           THEN Epilogue(EXIT_CONTINUE,
                         [sh EXCEPT !.executor_continue_count = @ - 1],
                         FALSE, FALSE, pend)
           ELSE Stay([Top EXCEPT !.pc = "top", !.st = 0], sh)
      [] ret = EXIT_RETURN -> Epilogue(onReturn, sh, tag, FALSE, pend)
      [] OTHER -> Stay([Top EXCEPT !.pc = "top", !.st = ret], sh)

\* the status of a loop that found got_sigint set: 128 + SIGINT
EXIT_SIGINT == 130

\* signal_check_sigint: whether got_sigint was set, and got_sigint reset
signal_check_sigint(got) == [hit |-> got # 0, got |-> 0]

\* execute_while and execute_until differ in the test of cond_status only;
\* every iteration begins with signal_check_sigint
execute_while ==
    /\ At({"WHILE", "UNTIL"}, {"enter", "top", "cond", "body"})
    /\ CASE Top.pc \in {"enter", "top"} ->
              LET chk == signal_check_sigint(got_sigint)
              IN /\ got_sigint' = chk.got
                 /\ IF chk.hit
                    THEN Epilogue(EXIT_SIGINT, sh, Exempt(stack), FALSE, pend)
                    ELSE Enter([Top EXCEPT !.pc = "cond",
                                           !.old = sh.shell_ignore_errexit],
                               TopNode.a, [sh EXCEPT !.shell_ignore_errexit = 1])
         [] Top.pc = "cond" ->
              LET sh1 == [sh EXCEPT !.shell_ignore_errexit = Top.old]
                  stop == IF TopNode.t = "WHILE" THEN ret # 0 ELSE ret = 0
              IN /\ IF stop
                    THEN Epilogue(Top.st, sh1, FALSE, FALSE, pend)
                    ELSE Enter([Top EXCEPT !.pc = "body"], TopNode.b, sh1)
                 /\ UNCHANGED got_sigint
         [] OTHER -> AfterBody(EXIT_RETURN) /\ UNCHANGED got_sigint
    /\ UNCHANGED <<prog, restL>>

\* execute_for: signal_check_sigint begins every iteration over an item
execute_for ==
    /\ At({"FOR"}, {"enter", "top", "body"})
    /\ CASE Top.pc \in {"enter", "top"} ->
              IF Top.i >= TopNode.n
              THEN Epilogue(Top.st, sh, FALSE, FALSE, pend) /\ UNCHANGED got_sigint
              ELSE LET chk == signal_check_sigint(got_sigint)
                   IN /\ got_sigint' = chk.got
                      /\ IF chk.hit
                         THEN Epilogue(EXIT_SIGINT, sh, Exempt(stack), FALSE, pend)
                         ELSE Enter([Top EXCEPT !.pc = "body", !.i = @ + 1],
                                    TopNode.b, sh)
         [] OTHER -> AfterBody(EXIT_RETURN) /\ UNCHANGED got_sigint
    /\ UNCHANGED <<prog, restL>>

\* fork or vfork, the child executes the body and calls exit(status), the
\* parent returns WEXITSTATUS
execute_subshell ==
    /\ At({"SUBSHELL"}, {"enter", "wait", "waited"})
    /\ CASE Top.pc = "enter" ->
              Enter([Top EXCEPT !.pc = "wait", !.saved = sh,
                                !.vf = is_safe_for_vfork(TopNode.a)],
                    TopNode.a, sh)
         [] Top.pc = "wait" ->
              /\ ProcessExit(ret, sh, tag, pend)
              /\ c4' = c4
         [] OTHER ->
              Epilogue(ret, sh, ret # 0 /\ Exempt(stack), FALSE, pend)
    /\ UNCHANGED <<prog, restE>>

\* two forked children, one after the other here since they share nothing
\* but the pipe; the status of the first is dropped
execute_pipeline ==
    /\ At({"PIPELINE"}, {"enter", "wait", "waited"})
    /\ CASE Top.pc = "enter" ->
              Enter([Top EXCEPT !.pc = "wait", !.saved = sh, !.i = 1],
                    TopNode.a, sh)
         [] Top.pc = "wait" ->
              /\ ProcessExit(ret, sh, tag, pend)
              /\ c4' = c4
         [] Top.pc = "waited" /\ Top.i = 1 ->
              Enter([Top EXCEPT !.pc = "wait", !.saved = sh, !.i = 2],
                    TopNode.b, sh)
         [] OTHER ->
              Epilogue(ret, sh, ret # 0 /\ Exempt(stack), TRUE, pend)
    /\ UNCHANGED <<prog, restE>>

execute_and_or ==
    /\ At({"AND", "OR"}, {"enter", "left", "right"})
    /\ CASE Top.pc = "enter" ->
              Enter([Top EXCEPT !.pc = "left", !.old = sh.shell_ignore_errexit],
                    TopNode.a, [sh EXCEPT !.shell_ignore_errexit = 1])
         [] Top.pc = "left" ->
              LET sh1 == [sh EXCEPT !.shell_ignore_errexit = Top.old]
                  right == IF TopNode.t = "AND" THEN ret = 0 ELSE ret # 0
              IN IF right
                 THEN Enter([Top EXCEPT !.pc = "right"], TopNode.b, sh1)
                 ELSE Epilogue(ret, sh1, tag, FALSE, pend)
         [] OTHER -> Epilogue(ret, sh, tag, FALSE, pend)
    /\ UNCHANGED <<prog, restE>>

execute_group ==
    /\ At({"GROUP"}, {"enter", "body"})
    /\ CASE Top.pc = "enter" ->
              Enter([Top EXCEPT !.pc = "body"], TopNode.a, sh)
         [] OTHER -> Epilogue(ret, sh, tag, FALSE, pend)
    /\ UNCHANGED <<prog, restE>>

NextExec ==
    \/ execute_simple_command
    \/ execute_list
    \/ execute_if
    \/ execute_while
    \/ execute_for
    \/ execute_subshell
    \/ execute_pipeline
    \/ execute_and_or
    \/ execute_group

\* a simple command is about to run
CommandStarts == At({"COMMAND"}, {"enter"})

\* C4: with set -e, a failing simple command or pipeline makes the shell
\* exit, except that the shell does not exit on a failure met in the
\* condition of if, while or until, in a non-final element of && or ||, or in
\* a pipeline negated with !. c4 records an exit taken on such a failure
\* (exempt_exit) and a failure elsewhere that was not followed by the exit
\* (missed_exit).
C4_ErrexitExemptions == c4 = "none"

\* C5: after break n (continue n) inside at least n loops no command runs
\* until the n-th enclosing loop has returned (has started its next
\* iteration), no loop further out is left, and the process does not exit.
C5_BreakContinueLeaveLoops ==
    pend.kind \in {"break", "continue"} => (pend.how = "none" /\ ~CommandStarts)

\* C6: after return n inside a function body no command runs until the
\* innermost function call has returned, and that call's status is n.
C6_ReturnEndsFunction ==
    pend.kind = "return" => (pend.how = "none" /\ ~CommandStarts)

\* C9: a pipeline returns the status of its last stage, and a pipeline
\* prefixed with ! returns 1 when that status is 0 and 0 otherwise; the same
\* holds for a single command prefixed with !.
C9_PipelineStatus ==
    [][/\ (At({"PIPELINE"}, {"waited"}) /\ Top.i = 2 /\ ~exited'
             /\ Len(stack') < Len(stack))
          => ret' = IF Negated(Top.id)
                    THEN (IF ret = 0 THEN 1 ELSE 0)
                    ELSE ret
       /\ (CommandStarts /\ TopNode.name = "!" /\ ~exited'
             /\ Len(stack') < Len(stack)
             /\ (Len(stack) > 1 => NodeOf(stack[Len(stack) - 1].id).t # "PIPELINE"))
          => ret' \in {0, 1}]_vars

CommandEndsWith(st) ==
    /\ At({"COMMAND"}, {"enter"})
    /\ TopNode.name = "cmd"
    /\ Epilogue(st, sh, st # 0 /\ Exempt(stack), TRUE, pend)
    /\ UNCHANGED <<prog, restE>>

NextSentinel ==
    \/ NextExec
    \/ \E st \in Sentinels : CommandEndsWith(st)

\* the program has none of the builtins break, continue and return
NoControlBuiltin ==
    \A i \in 1..Len(prog) : prog[i].name \notin {"break", "continue", "return"}

\* C25: in a program without break, continue and return, a loop whose body
\* ended with status 100, 101 or 102 goes on with its next iteration, and a
\* list whose first command ended with such a status runs its second.
C25_OrdinaryStatusIsNoSentinel ==
    [][NoControlBuiltin =>
          /\ (At({"WHILE", "UNTIL", "FOR"}, {"body"}) /\ ret \in Sentinels)
                => (Len(stack') = Len(stack) /\ stack'[Len(stack)].pc = "top"
                      /\ stack'[Len(stack)].st = ret)
          /\ (At({"LIST"}, {"left"}) /\ ret \in Sentinels)
                => Len(stack') > Len(stack)]_vars

\* break, continue or return is about to run, or the one that ran is on its
\* way to its loop or function
ControlInFlight ==
    \/ (CommandStarts /\ TopNode.name \in {"break", "continue", "return"})
    \/ (~exited /\ stack # <<>> /\ pend.kind # "none" /\ pend.how = "none")

\* C26: the step of a node that break, continue or return is passing through
\* never ends the process, with set -e or without.
C26_SentinelsDoNotExit ==
    [][ControlInFlight => (stack' # <<>> /\ ~exited'
                             /\ (ProcBase(stack) > 0 => Len(stack') > ProcBase(stack)))]_vars

\* ---------------------------------------------------------------------------
\* The command word and the assignment prefix of a simple command
\* ---------------------------------------------------------------------------

\* a simple command has at most MaxAssigns assignments in front of its name
MaxAssigns == 2

\* the command words: set is a POSIX special builtin, echo a regular builtin
\* that is also a file on $PATH, ls a file on $PATH only, nosuch is nothing
CmdNames == {"set", "echo", "ls", "nosuch"}
SpecialBuiltins == {"set"}
builtin_is_builtin(name) == name \in {"set", "echo"}
find_executable(name) == name \in {"echo", "ls"}

\* the assigned value is one that no other operation stores
Assignments ==
    UNION {[1..k -> DynNames \X {"b"}] : k \in 0..MaxAssigns}

NoEnv == [n \in Names |-> Null]
NoRun == [tick |-> FALSE, name |-> "", level |-> "none", hadfunc |-> FALSE,
          assigns |-> <<>>, env |-> NoEnv]

InitCmd ==
    /\ funcs = {}
    /\ ran = NoRun

\* the function table's lookup and insertion
func_get(fs, name) == name \in fs
func_add(fs, name) == fs \cup {name}

\* the strings NAME=VALUE handed to execve: the exported variables that are
\* not marked unset
posish_var_get_environ(tab) ==
    [n \in Names |->
        IF tab[n].there /\ VEXPORT \in tab[n].flags /\ VUNSET \notin tab[n].flags
        THEN tab[n].value ELSE Null]

\* the loop over the assignments: posish_var_set on the shell's own table,
\* stopping at the first one that is refused
RECURSIVE ApplyAssignments(_, _)
ApplyAssignments(tab, as) ==
    IF as = <<>> THEN [tab |-> tab, rc |-> 0, diag |-> FALSE]
    ELSE LET r == posish_var_set(tab, as[1][1], as[1][2])
         IN IF r.rc # 0 THEN r ELSE ApplyAssignments(r.tab, Tail(as))

\* what execute_simple_command runs for the word name: a function if there
\* is one, else a builtin, else a file found on $PATH
Resolve(fs, name) ==
    IF func_get(fs, name) THEN "function"
    ELSE IF builtin_is_builtin(name)
         THEN (IF name \in SpecialBuiltins THEN "special" ELSE "regular")
         ELSE IF find_executable(name) THEN "external" ELSE "notfound"

\* name() { :; }
DefineFunction(name) ==
    /\ ~crashed
    /\ nops < MaxOps
    /\ nops' = nops + 1
    /\ funcs' = func_add(funcs, name)
    /\ UNCHANGED <<vartab, scopes, crashed, diag, ran, restC>>

\* as name, with no operands; a function's body is the command :
RunCommand(as, name) ==
    /\ ~crashed
    /\ nops < MaxOps
    /\ nops' = nops + 1
    /\ LET r == ApplyAssignments(vartab, as)
           level == IF r.rc # 0 THEN "refused" ELSE Resolve(funcs, name)
       IN /\ vartab' = r.tab
          /\ diag' = r.diag
          /\ ran' = [tick |-> ~ran.tick, name |-> name, level |-> level,
                     hadfunc |-> func_get(funcs, name), assigns |-> as,
                     env |-> IF level = "external"
                             THEN posish_var_get_environ(r.tab) ELSE NoEnv]
    /\ UNCHANGED <<scopes, crashed, funcs, restC>>

NextCmd ==
    \/ \E n \in DynNames, v \in Values : VarSet(n, v)
    \/ \E n \in DynNames : VarExport(n)
    \/ \E n \in DynNames : VarReadonly(n)
    \/ \E n \in CmdNames \ {"nosuch"} : DefineFunction(n)
    \/ \E as \in Assignments, n \in CmdNames : RunCommand(as, n)

\* the step is a simple command
IsRun == ran'.tick # ran.tick

\* the value the assignments as give the name n, Null if they give none
RECURSIVE Assigned(_, _)
Assigned(as, n) ==
    IF as = <<>> THEN Null
    ELSE IF as[Len(as)][1] = n THEN as[Len(as)][2]
         ELSE Assigned(SubSeq(as, 1, Len(as) - 1), n)

\* C7: assignments in front of a command that resolves to an external command
\* or a regular builtin leave the shell's variable store as it was before the
\* command, and an external command finds each of them in its environment.
C7_AssignmentPrefixIsLocal ==
    [][(IsRun /\ ran'.level \in {"regular", "external"} /\ ran'.assigns # <<>>)
          => /\ vartab' = vartab
             /\ ran'.level = "external" =>
                   \A n \in DynNames :
                       Assigned(ran'.assigns, n) # Null
                           => ran'.env[n] = Assigned(ran'.assigns, n)]_vars

\* the level the resolution order of C8 gives a name
Expected(name, hadfunc) ==
    IF name \in SpecialBuiltins THEN "special"
    ELSE IF hadfunc THEN "function"
    ELSE IF builtin_is_builtin(name) THEN "regular"
    ELSE IF find_executable(name) THEN "external" ELSE "notfound"

\* C8: the command word is resolved as special builtin, then function, then
\* regular builtin, then $PATH: the earliest level that defines the name runs.
C8_ResolutionOrder ==
    ran.level \notin {"none", "refused"} => ran.level = Expected(ran.name, ran.hadfunc)

\* ---------------------------------------------------------------------------
\* Redirections of a command that runs in the shell process
\* ---------------------------------------------------------------------------

\* descriptors 0..MaxFd, at most MaxRedirs redirections on a command, with
\* io-numbers up to MaxIoNumber
MaxFd == 7
MaxRedirs == 2
MaxIoNumber == 3

Fds == 0..MaxFd
Closed == "closed"

\* one Redirection: >file (REDIR_OUT; >>, >| and <> act alike on the table),
\* <file where the file exists or not, n>&m and n>&- (REDIR_OUT_DUP with fd
\* -1 for the word -), and a here-document
RedirTypes == {"REDIR_OUT", "REDIR_IN", "REDIR_OUT_DUP", "REDIR_HEREDOC"}
Redirection(type, io, file, fd) ==
    [type |-> type, io_number |-> io, filename |-> file, fd |-> fd]
Redirections ==
    {Redirection("REDIR_OUT", io, "f", 0) : io \in 0..MaxIoNumber}
    \cup {Redirection("REDIR_IN", io, f, 0) : io \in 0..MaxIoNumber, f \in {"f", "missing"}}
    \cup {Redirection("REDIR_OUT_DUP", io, "", fd) : io \in 0..MaxIoNumber, fd \in {-1, 1, 3}}
    \cup {Redirection("REDIR_HEREDOC", io, "", 0) : io \in 0..MaxIoNumber}
RedirLists == UNION {[1..k -> Redirections] : k \in 1..MaxRedirs}

\* the system calls, on a descriptor table
LowestFree(tab) ==
    IF \A fd \in Fds : tab[fd] # Closed THEN -1
    ELSE CHOOSE fd \in Fds : tab[fd] = Closed /\ \A g \in Fds : g < fd => tab[g] # Closed
IsOpen(tab, fd) == fd \in Fds /\ tab[fd] # Closed
\* open(2) and dup(2) return the lowest free descriptor, -1 on failure
open(tab, file) ==
    LET fd == LowestFree(tab)
    IN IF file = "missing" \/ fd = -1 THEN [tab |-> tab, fd |-> -1]
       ELSE [tab |-> [tab EXCEPT ![fd] = file], fd |-> fd]
dup(tab, old) ==
    LET fd == LowestFree(tab)
    IN IF ~IsOpen(tab, old) \/ fd = -1 THEN [tab |-> tab, fd |-> -1]
       ELSE [tab |-> [tab EXCEPT ![fd] = tab[old]], fd |-> fd]
\* dup2(2) fails on a descriptor that is not open and does nothing when both
\* are the same
dup2(tab, old, new) ==
    IF ~IsOpen(tab, old) THEN [tab |-> tab, rc |-> -1]
    ELSE [tab |-> [tab EXCEPT ![new] = tab[old]], rc |-> new]
close(tab, fd) == IF fd \in Fds THEN [tab EXCEPT ![fd] = Closed] ELSE tab

\* open, dup2 onto the io-number, close: the file redirections
RedirectFile(tab, r) ==
    LET o == open(tab, r.filename)
        d == dup2(o.tab, o.fd, r.io_number)
    IN IF o.fd < 0 THEN [tab |-> tab, rc |-> 1]
       ELSE IF d.rc < 0 THEN [tab |-> close(o.tab, o.fd), rc |-> 1]
       ELSE [tab |-> close(d.tab, o.fd), rc |-> 0]

\* pipe, close the write end, dup2 the read end onto the io-number, close it
RedirectHeredoc(tab, r) ==
    LET p0 == open(tab, "heredoc")
        p1 == open(p0.tab, "heredoc")
        t1 == close(p1.tab, p1.fd)
        d == dup2(t1, p0.fd, r.io_number)
    IN IF p0.fd < 0 \/ p1.fd < 0 THEN [tab |-> tab, rc |-> 1]
       ELSE [tab |-> close(d.tab, p0.fd), rc |-> 0]

RedirectDup(tab, r) ==
    IF r.fd = -1 THEN [tab |-> close(tab, r.io_number), rc |-> 0]
    ELSE LET d == dup2(tab, r.fd, r.io_number)
         IN IF d.rc < 0 THEN [tab |-> tab, rc |-> 1] ELSE [tab |-> d.tab, rc |-> 0]

RECURSIVE handle_redirections(_, _)
handle_redirections(tab, rs) ==
    IF rs = <<>> THEN [tab |-> tab, rc |-> 0]
    ELSE LET r == rs[1]
             one == CASE r.type \in {"REDIR_OUT", "REDIR_IN"} -> RedirectFile(tab, r)
                      [] r.type = "REDIR_OUT_DUP" -> RedirectDup(tab, r)
                      [] OTHER -> RedirectHeredoc(tab, r)
         IN IF one.rc # 0 THEN one ELSE handle_redirections(one.tab, Tail(rs))

\* the shell runs at most MaxCommands commands with redirections
MaxCommands == 2

NoSaved == [saved_stdin |-> -1, saved_stdout |-> -1, saved_stderr |-> -1]

\* the table the shell starts with: the terminal on 0, 1 and 2
StdTable == [fd \in Fds |-> IF fd <= 2 THEN "tty" ELSE Closed]

\* a shell may also be started with descriptor 3 open or with stdin closed
InitTables ==
    {[StdTable EXCEPT ![0] = a, ![3] = b] : a \in {"tty", Closed}, b \in {"log", Closed}}

InitIdleRedir ==
    /\ fdtab = StdTable
    /\ rpc = "idle"
    /\ redirs = <<>>
    /\ saved = NoSaved
    /\ fd_before = StdTable

InitRedir ==
    /\ fdtab \in InitTables
    /\ rpc = "idle"
    /\ redirs = <<>>
    /\ saved = NoSaved
    /\ fd_before = fdtab

\* a builtin or a function with the redirections rs: has_redirections, then
\* saved_stdin = dup(0), saved_stdout = dup(1), saved_stderr = dup(2)
SaveFds(rs) ==
    /\ rpc = "idle"
    /\ nops < MaxCommands
    /\ nops' = nops + 1
    /\ LET d0 == dup(fdtab, 0)
           d1 == dup(d0.tab, 1)
           d2 == dup(d1.tab, 2)
       IN /\ fdtab' = d2.tab
          /\ saved' = [saved_stdin |-> d0.fd, saved_stdout |-> d1.fd,
                       saved_stderr |-> d2.fd]
    /\ redirs' = rs
    /\ fd_before' = fdtab
    /\ rpc' = "saved"
    /\ UNCHANGED restR

\* handle_redirections(redirections, redirection_count)
ApplyRedirections ==
    /\ rpc = "saved"
    /\ LET r == handle_redirections(fdtab, redirs)
       IN /\ fdtab' = r.tab
          /\ rpc' = IF r.rc = 0 THEN "applied" ELSE "failed"
    /\ UNCHANGED <<nops, redirs, saved, fd_before, restR>>

\* builtin_run, or the function's body: it leaves the descriptors alone
RunInProcess ==
    /\ rpc = "applied"
    /\ rpc' = "ran"
    /\ UNCHANGED <<nops, fdtab, redirs, saved, fd_before, restR>>

\* dup2(saved_stdin, 0), dup2(saved_stdout, 1), dup2(saved_stderr, 2), then
\* the three close calls; the same after a failed handle_redirections
RestoreFds ==
    /\ rpc \in {"ran", "failed"}
    /\ LET t0 == dup2(fdtab, saved.saved_stdin, 0).tab
           t1 == dup2(t0, saved.saved_stdout, 1).tab
           t2 == dup2(t1, saved.saved_stderr, 2).tab
       IN fdtab' = close(close(close(t2, saved.saved_stdin),
                               saved.saved_stdout), saved.saved_stderr)
    /\ rpc' = "idle"
    /\ redirs' = <<>>
    /\ saved' = NoSaved
    /\ UNCHANGED <<nops, fd_before, restR>>

NextRedir ==
    \/ \E rs \in RedirLists : SaveFds(rs)
    \/ ApplyRedirections
    \/ RunInProcess
    \/ RestoreFds

\* C10: when an in-process command with redirections has completed, every
\* descriptor refers to the open file it referred to when the command
\* started, or is closed as it was then.
C10_FdTableRestored ==
    [][(rpc = "ran" /\ rpc' = "idle") => fdtab' = fd_before]_vars

\* ---------------------------------------------------------------------------
\* A simple command with redirections: each way execute_simple_command can
\* take after the words are expanded
\* ---------------------------------------------------------------------------

\* the command words: f is a function, [ stands for the forms of [ and test
\* that try_test_fast_path evaluates, echo is a builtin, ls a file on $PATH
SimpleNames == {"f", ":", "true", "false", "[", "echo", "ls", "nosuch"}
FastNames == {":", "true", "false"}

\* a redirection list on descriptors 1 and 3, or none
SimpleRedirections == {r \in Redirections : r.io_number \in {1, 3} /\ r.fd # 3}
AnyRedirs == UNION {[1..k -> SimpleRedirections] : k \in 0..MaxRedirs}

\* the list names a file that open(2) fails on
HasBadTarget(rs) == \E i \in 1..Len(rs) : rs[i].filename = "missing"

NoSimple == [tick |-> FALSE, name |-> "", bad |-> FALSE, diag |-> "none",
             executed |-> FALSE, status |-> 0]

InitSimple ==
    /\ funcs = {"f"}
    /\ ran = NoRun
    /\ simple = NoSimple

InitIdleSimple == simple = NoSimple

\* the descriptors around a function or a builtin: the three dup calls when
\* there are redirections, handle_redirections, and the dup2 and close calls
\* that both the failure branch and the normal end make
InProcess(tab, rs) ==
    IF rs = <<>> THEN [tab |-> tab, rc |-> 0]
    ELSE LET d0 == dup(tab, 0)
             d1 == dup(d0.tab, 1)
             d2 == dup(d1.tab, 2)
             h == handle_redirections(d2.tab, rs)
             t0 == dup2(h.tab, d0.fd, 0).tab
             t1 == dup2(t0, d1.fd, 1).tab
             t2 == dup2(t1, d2.fd, 2).tab
         IN [tab |-> close(close(close(t2, d0.fd), d1.fd), d2.fd), rc |-> h.rc]

Done(name, rs, dg, ex, st) ==
    /\ nops < MaxCommands
    /\ nops' = nops + 1
    /\ simple' = [tick |-> ~simple.tick, name |-> name, bad |-> HasBadTarget(rs),
                  diag |-> dg, executed |-> ex, status |-> st]
    /\ UNCHANGED <<funcs, restS>>

\* func_get finds a body: return 1 when handle_redirections fails, else the
\* body runs
FunctionCall(name, rs) ==
    /\ func_get(funcs, name)
    /\ LET r == InProcess(fdtab, rs)
       IN /\ fdtab' = r.tab
          /\ IF r.rc # 0
             THEN Done(name, rs, "redirection", FALSE, 1)
             ELSE \E st \in {0, 1} : Done(name, rs, "none", TRUE, st)

\* :, true and false return at once
FastPath(name, rs) ==
    /\ ~func_get(funcs, name)
    /\ name \in FastNames
    /\ fdtab' = fdtab
    /\ Done(name, rs, "none", TRUE, IF name = "false" THEN 1 ELSE 0)

\* try_test_fast_path returns the result of the comparison
TestFastPath(name, rs) ==
    /\ ~func_get(funcs, name)
    /\ name = "["
    /\ fdtab' = fdtab
    /\ \E st \in {0, 1} : Done(name, rs, "none", TRUE, st)

\* builtin_is_builtin: as for a function, with builtin_run
Builtin(name, rs) ==
    /\ ~func_get(funcs, name)
    /\ name \notin FastNames \cup {"["}
    /\ builtin_is_builtin(name)
    /\ LET r == InProcess(fdtab, rs)
       IN /\ fdtab' = r.tab
          /\ IF r.rc # 0
             THEN Done(name, rs, "redirection", FALSE, 1)
             ELSE \E st \in {0, 1} : Done(name, rs, "none", TRUE, st)

\* a file on $PATH: the forked child calls handle_redirections on its own
\* table and _exit(1) when it fails, execve otherwise; job_wait returns the
\* child's status. No file: "command not found" and 127.
External(name, rs) ==
    /\ ~func_get(funcs, name)
    /\ name \notin FastNames \cup {"["}
    /\ ~builtin_is_builtin(name)
    /\ fdtab' = fdtab
    /\ IF ~find_executable(name)
       THEN Done(name, rs, "not found", FALSE, NotFound)
       ELSE IF handle_redirections(fdtab, rs).rc # 0
            THEN Done(name, rs, "redirection", FALSE, 1)
            ELSE \E st \in {0, 1} : Done(name, rs, "none", TRUE, st)

NextSimple ==
    \/ \E n \in SimpleNames, rs \in AnyRedirs : FunctionCall(n, rs)
    \/ \E n \in SimpleNames, rs \in AnyRedirs : FastPath(n, rs)
    \/ \E n \in SimpleNames, rs \in AnyRedirs : TestFastPath(n, rs)
    \/ \E n \in SimpleNames, rs \in AnyRedirs : Builtin(n, rs)
    \/ \E n \in SimpleNames, rs \in AnyRedirs : External(n, rs)

\* C11: a simple command with a redirection whose target cannot be opened,
\* whatever its name resolves to (external command, function, builtin, :,
\* true, false), writes a diagnostic, is not executed, and has a non-zero
\* status; the shell goes on.
C11_RedirectionErrorStopsCommand ==
    (simple.bad /\ simple.name # "nosuch")
        => /\ simple.diag = "redirection"
           /\ ~simple.executed
           /\ simple.status # 0
           /\ ~crashed

\* ---------------------------------------------------------------------------
\* Signals and traps: the handler, the trap table and signal_check_pending,
\* the hook that executor_execute calls before it dispatches a node
\* ---------------------------------------------------------------------------

\* the conditions of signal_map that the model uses
EXIT == 0
SIGINT == 2
SIGTERM == 15
MAX_SIGNALS == 64
DelivSigs == {SIGINT, SIGTERM}
TrapSigs == {EXIT} \cup DelivSigs

\* at most MaxDeliveries signals arrive while at most MaxMain top-level
\* commands run
MaxDeliveries == 2
MaxMain == 3

\* the next index of the loop over pending_signals that the model has a
\* signal for
NextSig(i) ==
    IF \E t \in TrapSigs : t > i
    THEN CHOOSE t \in TrapSigs : t > i /\ \A u \in TrapSigs : u > i => t <= u
    ELSE MAX_SIGNALS

\* the commands: one that ends with a status of its own, trap action sig
\* (action '' to ignore), trap - sig, and exit
PlainCmd == [op |-> "cmd", sig |-> 0, action |-> ""]
TrapCmd(sig, action) == [op |-> "trap", sig |-> sig, action |-> action]
ResetCmd(sig) == [op |-> "reset", sig |-> sig, action |-> ""]
ExitCmd == [op |-> "exit", sig |-> 0, action |-> ""]
TrapCmds(S) ==
    {TrapCmd(sig, a) : sig \in S, a \in {"cmd", ""}} \cup {ResetCmd(sig) : sig \in S}

\* a call of executor_execute on a command, and a call of
\* signal_check_pending with its loop index i and its local saved_status;
\* entry, ran and differ observe the call: $? when it began, whether it ran
\* an action, whether an action left another $?
ExecFrame(c) ==
    [k |-> "exec", pc |-> "hook", i |-> 0, saved_status |-> 0, cmd |-> c,
     entry |-> 0, ran |-> FALSE, differ |-> FALSE]
HookFrame(st) ==
    [k |-> "hook", pc |-> "any", i |-> 0, saved_status |-> 0, cmd |-> PlainCmd,
     entry |-> st, ran |-> FALSE, differ |-> FALSE]

NoOwed == [st |-> "no", at |-> 0, changed |-> FALSE]
NoIntr == [n |-> 0, loops |-> {}]

\* a handler that marks the signal and leaves any_pending_signal alone
handler_without_any(pend_sigs, got, traps, signum) ==
    [pending |-> [pend_sigs EXCEPT ![signum] = 1],
     any |-> any_pending_signal,
     got |-> IF signum = SIGINT /\ traps[SIGINT] = Null THEN 1 ELSE got]

\* handler(signum): got_sigint for a SIGINT that has no trap, then the two
\* flags
handler(pend_sigs, got, traps, signum) ==
    [pending |-> [pend_sigs EXCEPT ![signum] = 1],
     any |-> 1,
     got |-> IF signum = SIGINT /\ traps[SIGINT] = Null THEN 1 ELSE got]

\* signal_trap: the action is recorded and the handler installed, or for the
\* empty action the signal is set to SIG_IGN; nothing is installed for EXIT
signal_trap(traps, disp, signum, command) ==
    IF command # ""
    THEN [traps |-> [traps EXCEPT ![signum] = command],
          disp |-> IF signum > 0 THEN [disp EXCEPT ![signum] = "handler"] ELSE disp]
    ELSE [traps |-> [traps EXCEPT ![signum] = Null],
          disp |-> IF signum > 0 THEN [disp EXCEPT ![signum] = "SIG_IGN"] ELSE disp]

signal_reset(traps, disp, signum) ==
    [traps |-> [traps EXCEPT ![signum] = Null],
     disp |-> IF signum > 0 THEN [disp EXCEPT ![signum] = "SIG_DFL"] ELSE disp]

\* signal_init, from the dispositions the shell was started with: the tables
\* are cleared, the ignored signals noted, and the handler installed for
\* SIGINT
InitSignals ==
    /\ intr = NoIntr
    /\ \E entry \in [DelivSigs -> {"SIG_DFL", "SIG_IGN"}] :
          /\ signals_ignored_on_entry =
                [t \in DelivSigs |-> IF entry[t] = "SIG_IGN" THEN 1 ELSE 0]
          /\ disposition = [entry EXCEPT ![SIGINT] = "handler"]
    /\ trap_commands = [t \in TrapSigs |-> Null]
    /\ pending_signals = [t \in TrapSigs |-> 0]
    /\ any_pending_signal = 0
    /\ got_sigint = 0
    /\ ctl = <<>>
    /\ owed = [t \in DelivSigs |-> NoOwed]
    /\ lost = "no"
    /\ served = 0
    /\ exit_ran = FALSE
    /\ ndeliv = 0
    /\ nmain = 0

InitIdleSignals ==
    /\ intr = NoIntr
    /\ signals_ignored_on_entry = [t \in DelivSigs |-> 0]
    /\ disposition = [t \in DelivSigs |-> IF t = SIGINT THEN "handler" ELSE "SIG_DFL"]
    /\ trap_commands = [t \in TrapSigs |-> Null]
    /\ pending_signals = [t \in TrapSigs |-> 0]
    /\ any_pending_signal = 0
    /\ got_sigint = 0
    /\ ctl = <<>>
    /\ owed = [t \in DelivSigs |-> NoOwed]
    /\ lost = "no"
    /\ served = 0
    /\ exit_ran = FALSE
    /\ ndeliv = 0
    /\ nmain = 0

CtlTop == ctl[Len(ctl)]
CtlBelow == SubSeq(ctl, 1, Len(ctl) - 1)

\* a call of signal_check_pending begins at depth d of ctl: it is the next
\* call after every delivery that waits
HookBegins(ow, d) ==
    [t \in DelivSigs |->
        IF ow[t].st = "wait" THEN [ow[t] EXCEPT !.st = "due", !.at = d] ELSE ow[t]]

\* the deliveries that the call at depth d had to serve
DueAt(d) == {t \in DelivSigs : owed[t].st = "due" /\ owed[t].at = d}

\* lexer_init and parser_parse on an action string
ParseAction(str) == IF str = "exit" THEN ExitCmd ELSE PlainCmd

\* a hook that leaves $? as the action left it
RestoredStatus_dropped(saved_status, status) == status

\* executor_set_last_status(saved_status) after the action
RestoredStatus(saved_status, status) == saved_status

\* the main flow calls executor_execute on its next command; the call begins
\* with the hook
StartCommand(c) ==
    /\ ~exited
    /\ ctl = <<>>
    /\ nmain < MaxMain
    /\ nmain' = nmain + 1
    /\ ctl' = <<ExecFrame(c), HookFrame(sh.last_exit_status)>>
    /\ owed' = HookBegins(owed, 2)
    /\ UNCHANGED <<trap_commands, pending_signals, any_pending_signal,
                   signals_ignored_on_entry, disposition, got_sigint, lost, served,
                   exit_ran, ndeliv, sh, exited, exit_code, restT>>

\* a signal arrives and the installed handler runs
Deliver(signum) ==
    /\ ~exited
    /\ ndeliv < MaxDeliveries
    /\ ndeliv' = ndeliv + 1
    /\ disposition[signum] = "handler"
    /\ LET h == handler(pending_signals, got_sigint, trap_commands, signum)
       IN /\ pending_signals' = h.pending
          /\ any_pending_signal' = h.any
          /\ got_sigint' = h.got
    /\ owed' = IF trap_commands[signum] # Null /\ owed[signum].st = "no"
               THEN [owed EXCEPT ![signum] = [st |-> "wait", at |-> 0, changed |-> FALSE]]
               ELSE owed
    /\ UNCHANGED <<trap_commands, signals_ignored_on_entry, disposition, ctl, lost,
                   served, exit_ran, nmain, sh, exited, exit_code, restT>>

\* signal_check_pending returns. A nested call that returns with a delivery
\* still to serve leaves it to the outermost call in progress (depth 2).
HookReturn ==
    LET D == DueAt(Len(ctl))
        outer == Len(ctl) = 2
    IN /\ ctl' = CtlBelow
       /\ lost' = IF D = {} THEN lost
                  ELSE IF \E t \in D : ~owed[t].changed
                  THEN (IF outer THEN "kept" ELSE IF lost = "kept" THEN lost ELSE "nested")
                  ELSE IF lost = "no" THEN "changed" ELSE lost
       /\ owed' = [t \in DelivSigs |->
                      IF t \notin D THEN owed[t]
                      ELSE IF outer THEN NoOwed ELSE [owed[t] EXCEPT !.at = 2]]
       /\ UNCHANGED <<sh, pending_signals, any_pending_signal, served, exit_ran>>

HookGoes(f) ==
    /\ ctl' = [ctl EXCEPT ![Len(ctl)] = f]
    /\ UNCHANGED <<sh, pending_signals, owed, lost, served, exit_ran>>

\* signal_check_pending, one step of it: the test of any_pending_signal, its
\* reset, the test of pending_signals[i], its reset and the start of the
\* action, and the restore of $? after the action
signal_check_pending ==
    /\ ~exited
    /\ ctl # <<>>
    /\ CtlTop.k = "hook"
    /\ LET f == CtlTop
           i == f.i
       IN CASE f.pc = "any" ->
                 IF any_pending_signal = 0
                 THEN HookReturn /\ UNCHANGED any_pending_signal
                 ELSE HookGoes([f EXCEPT !.pc = "clear"]) /\ UNCHANGED any_pending_signal
            [] f.pc = "clear" ->
                 /\ any_pending_signal' = 0
                 /\ HookGoes([f EXCEPT !.pc = "test", !.i = 0])
            [] f.pc = "test" ->
                 IF i >= MAX_SIGNALS
                 THEN HookReturn /\ UNCHANGED any_pending_signal
                 ELSE /\ HookGoes(IF pending_signals[i] = 1
                                  THEN [f EXCEPT !.pc = "zero"]
                                  ELSE [f EXCEPT !.i = NextSig(i)])
                      /\ UNCHANGED any_pending_signal
            [] f.pc = "zero" ->
                 /\ pending_signals' = [pending_signals EXCEPT ![i] = 0]
                 /\ IF trap_commands[i] # Null
                    THEN /\ ctl' = [ctl EXCEPT ![Len(ctl)] =
                                       [f EXCEPT !.pc = "restore", !.ran = TRUE,
                                                 !.saved_status = sh.last_exit_status]]
                                   \o <<ExecFrame(ParseAction(trap_commands[i])),
                                        HookFrame(sh.last_exit_status)>>
                         /\ owed' = HookBegins([t \in DelivSigs |->
                                                   IF t = i THEN NoOwed ELSE owed[t]],
                                               Len(ctl) + 2)
                         /\ served' = IF i \in DelivSigs /\ owed[i].st # "no"
                                         /\ Len(ctl) > served
                                      THEN Len(ctl) ELSE served
                         /\ exit_ran' = (exit_ran \/ i = EXIT)
                    ELSE /\ ctl' = [ctl EXCEPT ![Len(ctl)] =
                                       [f EXCEPT !.pc = "test", !.i = NextSig(i)]]
                         /\ UNCHANGED <<owed, served, exit_ran>>
                 /\ UNCHANGED <<sh, any_pending_signal, lost>>
            [] OTHER ->
                 /\ sh' = [sh EXCEPT !.last_exit_status =
                                        RestoredStatus(f.saved_status, @)]
                 /\ ctl' = [ctl EXCEPT ![Len(ctl)] =
                               [f EXCEPT !.pc = "test", !.i = NextSig(i),
                                         !.differ = @ \/ sh.last_exit_status # f.saved_status]]
                 /\ UNCHANGED <<pending_signals, any_pending_signal, owed, lost, served,
                                exit_ran>>
    /\ UNCHANGED <<trap_commands, signals_ignored_on_entry, disposition, got_sigint,
                   ndeliv, nmain, exited, exit_code, restT>>

\* executor_execute once the hook has returned: the command runs (builtin_trap
\* for trap), last_exit_status is set, and the errexit test is made
execute_command ==
    /\ ~exited
    /\ ctl # <<>>
    /\ CtlTop.k = "exec"
    /\ CtlTop.cmd.op # "exit"
    /\ LET c == CtlTop.cmd
           t == CASE c.op = "trap" ->
                       signal_trap(trap_commands, disposition, c.sig, c.action)
                  [] c.op = "reset" -> signal_reset(trap_commands, disposition, c.sig)
                  [] OTHER -> [traps |-> trap_commands, disp |-> disposition]
       IN /\ trap_commands' = t.traps
          /\ disposition' = t.disp
          /\ owed' = [u \in DelivSigs |->
                         IF c.op # "cmd" /\ u = c.sig /\ owed[u].st # "no"
                         THEN [owed[u] EXCEPT !.changed = TRUE] ELSE owed[u]]
          /\ \E status \in (IF c.op = "cmd" THEN {0, 1} ELSE {0}) :
                /\ sh' = [sh EXCEPT !.last_exit_status = status]
                /\ IF /\ sh.shell_exit_on_error = 1
                      /\ status # 0
                      /\ sh.shell_ignore_errexit = 0
                   THEN /\ exited' = TRUE
                        /\ exit_code' = status
                        /\ ctl' = <<>>
                   ELSE /\ ctl' = CtlBelow
                        /\ UNCHANGED <<exited, exit_code>>
    /\ UNCHANGED <<pending_signals, any_pending_signal, signals_ignored_on_entry,
                   got_sigint, lost, served, exit_ran, ndeliv, nmain, restT>>

NextTrap ==
    \/ \E c \in {PlainCmd} \cup TrapCmds(DelivSigs) : StartCommand(c)
    \/ \E t \in DelivSigs : Deliver(t)
    \/ signal_check_pending
    \/ execute_command

\* C12 as stated: every delivery of a signal that had a trap action when it
\* arrived is followed by a run of the action before the next call of
\* signal_check_pending that began after the delivery returns.
C12_EveryDeliveryRunsItsAction == lost = "no"

\* C12 as amended: every such delivery whose trap no trap command changed
\* before the hook visited the signal is followed by a run of the action
\* before the outermost call of signal_check_pending in progress when that
\* next call began returns; deliveries during the hook and during a trap
\* action included.
C12_DeliveryRunsUnchangedTrap == lost # "kept"

\* a delivery that arrived during a trap action had its action started by a
\* nested call of the hook
C12_Witness == served >= 4

\* C15: a signal that was ignored when the shell started is still ignored and
\* has no trap action, whatever trap commands have named it.
C15_IgnoredOnEntryStaysIgnored ==
    \A t \in DelivSigs :
        signals_ignored_on_entry[t] = 1
            => (disposition[t] = "SIG_IGN" /\ trap_commands[t] = Null)

\* a call of signal_check_pending returns
HookReturns == ctl # <<>> /\ CtlTop.k = "hook" /\ Len(ctl') < Len(ctl)

\* C16: when a call of signal_check_pending that ran trap actions returns,
\* $? is what it was when the call began.
C16_HookPreservesStatus ==
    [][(HookReturns /\ CtlTop.ran) => sh'.last_exit_status = CtlTop.entry]_vars

\* the hook is about to return after an action whose command left another $?
C16_Witness ==
    /\ ctl # <<>>
    /\ CtlTop.k = "hook"
    /\ CtlTop.pc = "test"
    /\ CtlTop.i >= MAX_SIGNALS
    /\ CtlTop.differ

\* ---------------------------------------------------------------------------
\* The ways the shell process ends: the exit builtin, the errexit test of
\* executor_execute, and main returning when its input has been executed
\* ---------------------------------------------------------------------------

\* the executor's state of a shell that runs commands one after the other,
\* started with or without -e
InitShell ==
    /\ prog = <<GenericCmd>>
    /\ stack = <<>>
    /\ ret = 0
    /\ \E e \in {0, 1} : sh = ShInit(e)
    /\ exited = FALSE
    /\ exit_code = 0
    /\ tag = FALSE
    /\ pend = NoPend
    /\ c4 = "none"

\* builtin_exit with at most one operand: signal_trigger_exit, which calls
\* signal_check_pending, marks EXIT pending and calls it again, then
\* exit(status)
builtin_exit ==
    /\ ~exited
    /\ ctl # <<>>
    /\ CtlTop.k = "exec"
    /\ CtlTop.cmd.op = "exit"
    /\ LET f == CtlTop
       IN CASE f.pc = "hook" ->
                 /\ ctl' = [ctl EXCEPT ![Len(ctl)] = [f EXCEPT !.pc = "first"]]
                              \o <<HookFrame(sh.last_exit_status)>>
                 /\ owed' = HookBegins(owed, Len(ctl) + 1)
                 /\ UNCHANGED <<pending_signals, any_pending_signal, exited, exit_code>>
            [] f.pc = "first" ->
                 /\ pending_signals' = [pending_signals EXCEPT ![EXIT] = 1]
                 /\ any_pending_signal' = 1
                 /\ ctl' = [ctl EXCEPT ![Len(ctl)] = [f EXCEPT !.pc = "second"]]
                              \o <<HookFrame(sh.last_exit_status)>>
                 /\ owed' = HookBegins(owed, Len(ctl) + 1)
                 /\ UNCHANGED <<exited, exit_code>>
            [] OTHER ->
                 /\ \E status \in {0, 1} :
                       /\ exited' = TRUE
                       /\ exit_code' = status
                 /\ ctl' = <<>>
                 /\ UNCHANGED <<pending_signals, any_pending_signal, owed>>
    /\ UNCHANGED <<trap_commands, signals_ignored_on_entry, disposition, got_sigint,
                   lost, served, exit_ran, ndeliv, nmain, sh, restT>>

\* main once the command string or the script file has been executed: it
\* returns the status of executor_execute, 0 when there was no command
EndOfInput ==
    /\ ~exited
    /\ ctl = <<>>
    /\ exited' = TRUE
    /\ exit_code' = IF nmain = 0 THEN 0 ELSE sh.last_exit_status
    /\ UNCHANGED <<varsT, sh, restT>>

\* the commands of the input: the EXIT actions do not call exit themselves
ExitCmds == {PlainCmd, ExitCmd} \cup TrapCmds({EXIT})

NextExit ==
    \/ \E c \in ExitCmds : StartCommand(c)
    \/ signal_check_pending
    \/ execute_command
    \/ builtin_exit
    \/ EndOfInput

\* C13: when the shell process has terminated, by exit, by errexit or at the
\* end of its input, while an action is set for EXIT, that action has been
\* executed.
C13_ExitTrapRunsOnEveryPath ==
    (exited /\ trap_commands[EXIT] # Null) => exit_ran

\* the calls of executor_execute and signal_check_pending nest at most
\* MaxCtlDepth deep
MaxCtlDepth == 8

\* the commands of the input, with an EXIT action that calls exit
ExitTrapCmds == ExitCmds \cup {TrapCmd(EXIT, "exit")}

\* the steps of the shell while the stack has room
HookStep == Len(ctl) < MaxCtlDepth /\ signal_check_pending
CommandStep == Len(ctl) < MaxCtlDepth /\ execute_command
ExitStep == Len(ctl) < MaxCtlDepth /\ builtin_exit

NextExitTrap ==
    \/ \E c \in ExitTrapCmds : StartCommand(c)
    \/ HookStep
    \/ CommandStep
    \/ ExitStep
    \/ EndOfInput

\* the runs of the EXIT action that have started and not returned
ExitActionsInProgress ==
    {j \in 1..Len(ctl) : ctl[j].k = "hook" /\ ctl[j].pc = "restore" /\ ctl[j].i = EXIT}

\* C27: the EXIT action is started at most once: while a run of it is in
\* progress, an exit inside it does not start it again.
C27_ExitActionStartsOnce == Cardinality(ExitActionsInProgress) <= 1

\* ---------------------------------------------------------------------------
\* SIGINT, with no trap set for INT, while the executor walks the tree
\* ---------------------------------------------------------------------------

\* at most MaxSigints SIGINTs arrive during a program
MaxSigints == 1

\* the loops whose execute_while, execute_until or execute_for is in progress
LoopsInProgress(stk) ==
    {i \in 1..Len(stk) : NodeOf(stk[i].id).t \in {"WHILE", "UNTIL", "FOR"}}

\* the shell process itself is running and has SIGINTs to come
MayInterrupt ==
    /\ ~exited
    /\ stack # <<>>
    /\ ProcBase(stack) = 0
    /\ intr.n < MaxSigints
    /\ disposition[SIGINT] = "handler"

Interrupted ==
    /\ LET h == handler(pending_signals, got_sigint, trap_commands, SIGINT)
       IN /\ pending_signals' = h.pending
          /\ any_pending_signal' = h.any
          /\ got_sigint' = h.got
    /\ intr' = [n |-> intr.n + 1, loops |-> intr.loops \cup LoopsInProgress(stack)]

\* SIGINT arrives while the shell runs a builtin or is between two commands:
\* the handler runs. With no trap action the hook of executor_execute only
\* clears the two pending flags, which the executor does not read.
SigintInShell ==
    /\ MayInterrupt
    /\ Interrupted
    /\ UNCHANGED <<varsV, heap, positional_args, positional_count, calls, varsE, varsC,
                   varsR, varsS, trap_commands, signals_ignored_on_entry, disposition,
                   ctl, owed, lost, served, exit_ran, ndeliv, nmain, varsX>>

\* SIGINT arrives while the shell waits for an external command of its
\* process group: the handler runs, the child is killed, job_wait returns
\* 128 + SIGINT and execute_simple_command sets got_sigint
SigintInCommand ==
    /\ MayInterrupt
    /\ At({"COMMAND"}, {"enter"})
    /\ TopNode.name = "cmd"
    /\ Interrupted
    /\ Epilogue(EXIT_SIGINT, sh, Exempt(stack), TRUE, pend)
    /\ UNCHANGED <<varsV, heap, positional_args, positional_count, calls, prog, varsC,
                   varsR, varsS, trap_commands, signals_ignored_on_entry, disposition,
                   ctl, owed, lost, served, exit_ran, ndeliv, nmain, varsX>>

NextInt ==
    \/ NextExec
    \/ SigintInShell
    \/ SigintInCommand

\* a loop that was in progress when SIGINT arrived starts an iteration
IteratesAgain ==
    /\ stack # <<>>
    /\ Len(stack) \in intr.loops
    /\ TopNode.t \in {"WHILE", "UNTIL", "FOR"}
    /\ Top.pc \in {"enter", "top"}
    /\ Len(stack') > Len(stack)

\* C14: after SIGINT has arrived while loops were executing, none of these
\* loops starts another iteration, and when the top-level command has been
\* unwound its status is 130.
C14_SigintUnwindsLoops ==
    [][/\ ~IteratesAgain
       /\ (intr.loops # {} /\ stack # <<>> /\ stack' = <<>>)
             => (IF exited' THEN exit_code' ELSE ret') = EXIT_SIGINT]_vars

\* ---------------------------------------------------------------------------
\* The parser (parser.c) on the tokens of a command string, and main's use of
\* the tree (main.c, the -c option)
\* ---------------------------------------------------------------------------

\* a command string has at most MaxTokens tokens
MaxTokens == 3

\* the tokens of the model: the word : (a command that succeeds), the
\* operators ; | && ( ), the newline and the keyword fi
Tokens == {":", ";", "|", "&&", "(", ")", "NL", "fi"}
Inputs == UNION {[1..k -> Tokens] : k \in 0..MaxTokens}

\* the trees of ast.h; a NULL pointer is NullTree
NullTree == [t |-> "NULL"]
CommandTree(n) == [t |-> "COMMAND", n |-> n]
Unary(t, a) == [t |-> t, a |-> a]
Binary(t, a, b) == [t |-> t, a |-> a, b |-> b]

\* parser_peek at position p of the token sequence
parser_peek(toks, p) == IF p > Len(toks) THEN "EOF" ELSE toks[p]

\* the result of a parse function: the tree and the position it stopped at
Parsed(node, pos) == [node |-> node, pos |-> pos]

RECURSIVE SkipNewlines(_, _)
SkipNewlines(toks, p) ==
    IF parser_peek(toks, p) = "NL" THEN SkipNewlines(toks, p + 1) ELSE p

RECURSIVE SkipWords(_, _)
SkipWords(toks, p) ==
    IF parser_peek(toks, p) = ":" THEN SkipWords(toks, p + 1) ELSE p

RECURSIVE parse_simple_command(_, _)
RECURSIVE parse_pipeline(_, _)
RECURSIVE AndOrRest(_, _, _)
RECURSIVE parse_list(_, _)

\* a word begins a function definition (name ( ) body) or a simple command,
\* whose loop takes the words that follow and stops at any other token; (
\* begins a subshell; any other token begins no command
parse_simple_command(toks, p) ==
    LET token == parser_peek(toks, p)
    IN CASE token = ":" ->
              IF parser_peek(toks, p + 1) = "("
              THEN IF parser_peek(toks, p + 2) = ")"
                   THEN LET body == parse_simple_command(toks, SkipNewlines(toks, p + 3))
                        IN IF body.node = NullTree
                           THEN Parsed(NullTree, body.pos)
                           ELSE Parsed(Unary("FUNCTION", body.node), body.pos)
                   ELSE Parsed(NullTree, p + 2)
              ELSE LET q == SkipWords(toks, p + 1)
                   IN Parsed(CommandTree(q - p), q)
         [] token = "(" ->
              LET body == parse_list(toks, p + 1)
              IN IF parser_peek(toks, body.pos) # ")"
                 THEN Parsed(NullTree, body.pos)
                 ELSE Parsed(Unary("SUBSHELL", body.node), body.pos + 1)
         [] OTHER -> Parsed(NullTree, p)

parse_pipeline(toks, p) ==
    LET left == parse_simple_command(toks, p)
    IN IF left.node = NullTree THEN left
       ELSE IF parser_peek(toks, left.pos) = "|"
       THEN LET right == parse_pipeline(toks, left.pos + 1)
            IN IF right.node = NullTree THEN right
               ELSE Parsed(Binary("PIPELINE", left.node, right.node), right.pos)
       ELSE left

\* the loop of parse_and_or once left has been parsed
AndOrRest(toks, left, p) ==
    IF parser_peek(toks, p) = "&&"
    THEN LET right == parse_pipeline(toks, SkipNewlines(toks, p + 1))
         IN IF right.node = NullTree THEN right
            ELSE AndOrRest(toks, Binary("AND", left, right.node), right.pos)
    ELSE Parsed(left, p)

parse_and_or(toks, p) ==
    LET left == parse_pipeline(toks, p)
    IN IF left.node = NullTree THEN left ELSE AndOrRest(toks, left.node, left.pos)

\* the keywords that end a list
Terminators == {"fi"}

parse_list(toks, p) ==
    LET p0 == SkipNewlines(toks, p)
    IN IF parser_peek(toks, p0) \in Terminators THEN Parsed(NullTree, p0)
       ELSE LET left == parse_and_or(toks, p0)
                token == parser_peek(toks, left.pos)
            IN IF left.node = NullTree THEN left
               ELSE CASE token = ";" ->
                           LET q == SkipNewlines(toks, left.pos + 1)
                               next == parser_peek(toks, q)
                           IN IF next = "EOF" \/ next \in Terminators
                              THEN Parsed(Binary("LIST", left.node, NullTree), q)
                              ELSE LET right == parse_list(toks, q)
                                   IN Parsed(Binary("LIST", left.node, right.node),
                                             right.pos)
                      [] token = "NL" ->
                           LET q == left.pos + 1
                           IN IF parser_peek(toks, q) \in Terminators
                              THEN Parsed(left.node, q)
                              ELSE LET right == parse_list(toks, q)
                                   IN IF right.node # NullTree
                                      THEN Parsed(Binary("LIST", left.node, right.node),
                                                  right.pos)
                                      ELSE Parsed(left.node, right.pos)
                      [] OTHER -> left

\* parser_parse: the list, or an empty command when parse_list returns NULL;
\* the tokens that are left are dropped
parser_parse(toks) ==
    LET node == parse_list(toks, 1).node
    IN IF node = NullTree THEN CommandTree(0) ELSE node

\* try_fast_command on a string of these tokens: only the empty string is
\* handled without the parser
try_fast_command(toks) == toks = <<>>

\* the simple commands that executor_execute runs in a tree whose commands
\* all succeed: every one of them, a function definition runs none
RECURSIVE Executed(_)
Executed(node) ==
    CASE node.t = "COMMAND" -> IF node.n > 0 THEN 1 ELSE 0
      [] node.t \in {"LIST", "AND", "PIPELINE"} -> Executed(node.a) + Executed(node.b)
      [] node.t = "SUBSHELL" -> Executed(node.a)
      [] OTHER -> 0

NoParse ==
    [pc |-> "idle", input |-> <<>>, ast |-> NullTree, diag |-> "none",
     executed |-> 0, status |-> 0]

InitIdleParse == parse = NoParse

InitParse == \E toks \in Inputs : parse = [NoParse EXCEPT !.pc = "start", !.input = toks]

\* main with -c: the fast path, or parser_parse
main_parse ==
    /\ parse.pc = "start"
    /\ parse' = IF try_fast_command(parse.input)
                THEN [parse EXCEPT !.pc = "done", !.status = 0]
                ELSE [parse EXCEPT !.pc = "parsed", !.ast = parser_parse(parse.input)]
    /\ UNCHANGED restM

\* main with -c: the tree is executed, or "parse error" is written and main
\* returns 2
main_execute ==
    /\ parse.pc = "parsed"
    /\ parse' = IF parse.ast # NullTree
                THEN [parse EXCEPT !.pc = "done", !.executed = Executed(parse.ast),
                                   !.status = 0]
                ELSE [parse EXCEPT !.pc = "done", !.diag = "parse error", !.status = 2]
    /\ UNCHANGED restM

NextParse ==
    \/ main_parse
    \/ main_execute

\* token patterns that no shell grammar allows: a command string that begins
\* with an operator or a lone fi, an operator right after | or && or ;, the
\* end of the string right after | or &&, and a ) with no ( before it
Ungrammatical(toks) ==
    \/ toks # <<>> /\ toks[1] \in {";", "|", "&&", ")", "fi"}
    \/ \E i \in 1..Len(toks) :
          /\ toks[i] \in {"|", "&&"}
          /\ parser_peek(toks, i + 1) \in {";", "|", "&&", ")", "fi", "EOF"}
    \/ \E i \in 1..(Len(toks) - 1) :
          toks[i] = ";" /\ toks[i + 1] \in {";", "|", "&&"}
    \/ \E i \in 1..Len(toks) :
          toks[i] = ")" /\ \A j \in 1..(i - 1) : toks[j] # "("

\* C17: when the command string has a token the grammar does not allow where
\* it stands, the parser returned a null tree and a syntax error was
\* reported, no command of the string was executed, and the shell ended with
\* status 2.
C17_SyntaxErrorStopsInput ==
    (parse.pc = "done" /\ Ungrammatical(parse.input))
        => /\ parse.ast = NullTree
           /\ parse.diag # "none"
           /\ parse.executed = 0
           /\ parse.status = 2

\* ---------------------------------------------------------------------------
\* The set builtin: its options and its operands (builtin-cmds/set.c)
\* ---------------------------------------------------------------------------

\* at most MaxSets set commands run, each with at most MaxSetArgs arguments
MaxSets == 3
MaxSetArgs == 2

SetWords == {"--", "-e", "+e", "a", "b"}
SetArgs == UNION {[1..k -> SetWords] : k \in 0..MaxSetArgs}

\* the loop over the arguments that begin with -: -- ends the options, -e
\* sets shell_exit_on_error
RECURSIVE MinusOptions(_, _, _)
MinusOptions(args, start_idx, e) ==
    IF start_idx <= Len(args) /\ args[start_idx] \in {"--", "-e"}
    THEN IF args[start_idx] = "--"
         THEN [start_idx |-> start_idx + 1, e |-> e]
         ELSE MinusOptions(args, start_idx + 1, 1)
    ELSE [start_idx |-> start_idx, e |-> e]

\* the loop over the arguments that begin with +, which starts again at the
\* first argument
RECURSIVE PlusOptions(_, _, _, _)
PlusOptions(args, i, start_idx, e) ==
    IF i <= Len(args) /\ args[i] = "+e"
    THEN PlusOptions(args, i + 1, i + 1, 0)
    ELSE [start_idx |-> start_idx, e |-> e]

\* builtin_set(args), args[0] left out: the variables are listed when there
\* is no argument; the options are applied; the operands that are left
\* become the positional parameters, and with none left the function returns
builtin_set(args, e) ==
    IF args = <<>> THEN [e |-> e, positional |-> FALSE, operands |-> <<>>]
    ELSE LET m == MinusOptions(args, 1, e)
             q == PlusOptions(args, 1, m.start_idx, m.e)
         IN IF q.start_idx > Len(args)
            THEN [e |-> q.e, positional |-> FALSE, operands |-> <<>>]
            ELSE [e |-> q.e, positional |-> TRUE,
                  operands |-> SubSeq(args, q.start_idx, Len(args))]

NoSet == [at |-> -1, args |-> <<>>]

InitIdleSet == setcmd = NoSet

\* the set command with these arguments
SetCommand(args) ==
    /\ ~crashed
    /\ nops < MaxSets
    /\ nops' = nops + 1
    /\ setcmd' = [at |-> nops + 1, args |-> args]
    /\ LET b == builtin_set(args, sh.shell_exit_on_error)
       IN /\ sh' = [sh EXCEPT !.shell_exit_on_error = b.e]
          /\ IF b.positional
             THEN \E nb \in Blocks, ub \in FreedUse :
                     /\ Choice(heap, positional_args, TRUE, nb, ub)
                     /\ LET r == posish_var_set_positional(heap, positional_args,
                                                           b.operands, nb, ub)
                        IN /\ heap' = r.heap
                           /\ positional_args' = r.args
                           /\ positional_count' = r.count
                           /\ crashed' = r.crashed
             ELSE UNCHANGED <<heap, positional_args, positional_count, crashed>>
    /\ UNCHANGED <<vartab, scopes, diag, calls, prog, stack, ret, exited, exit_code, tag,
                   pend, c4, varsC, varsR, varsS, varsT, varsI, parse, expn, twin, varsY>>

NextSet == \E args \in SetArgs : SetCommand(args)

\* C19: right after set -- with no operands, the positional parameters are
\* empty and $# is 0, whatever they were before.
C19_SetDashDashEmpties ==
    (setcmd.at = nops /\ setcmd.args = <<"--">> /\ ~crashed)
        => (positional_count = 0 /\ positional_args = 0)

\* ---------------------------------------------------------------------------
\* Word expansion of $@ (expand_word_internal, executor.c)
\* ---------------------------------------------------------------------------

\* at most MaxParams positional parameters of at most MaxChars characters
MaxParams == 2
MaxChars == 2

\* a string is the sequence of its characters
Chars == {"a", " "}
Strings == UNION {[1..k -> Chars] : k \in 0..MaxChars}
ParamVectors == UNION {[1..k -> Strings] : k \in 0..MaxParams}

\* the words: $@ in double quotes and bare
QuotedAt == "\"$@\""
BareAt == "$@"

\* is_ifs and is_ifs_whitespace with the default IFS
is_ifs(c) == c = " "

\* the value built for $@ and $*: the strings of posish_var_get_all_positional
\* with one space between them, the empty string when it returns NULL
RECURSIVE JoinPositional(_)
JoinPositional(args) ==
    IF args = <<>> THEN <<>>
    ELSE IF Len(args) = 1 THEN args[1]
    ELSE args[1] \o <<" ">> \o JoinPositional(Tail(args))

RECURSIVE SkipIfs(_, _)
SkipIfs(val, p) == IF p <= Len(val) /\ is_ifs(val[p]) THEN SkipIfs(val, p + 1) ELSE p

\* the loop that splits an unquoted value at the IFS characters: the fields
\* finished so far, the field being built and push_empty_at_end
RECURSIVE SplitValue(_, _, _, _, _)
SplitValue(val, p, results, sb, push) ==
    IF p > Len(val) THEN [results |-> results, sb |-> sb, push |-> push]
    ELSE IF is_ifs(val[p])
    THEN IF results = <<>> /\ sb = <<>>
         THEN SplitValue(val, SkipIfs(val, p + 1), results, sb, push)
         ELSE SplitValue(val, SkipIfs(val, p + 1), Append(results, sb), <<>>, FALSE)
    ELSE SplitValue(val, p + 1, results, Append(sb, val[p]), TRUE)

\* expand_word_internal on one of the two words: the quote marks set
\* saw_quotes and in_quote, $ sets push_empty_at_end, the value is split only
\* when allow_split is set and the $ is not in quotes, and the last field is
\* pushed under the condition at the end of the function
expand_word_internal(word, allow_split, args) ==
    LET val == JoinPositional(args)
        saw_quotes == word = QuotedAt
        r == IF allow_split /\ ~saw_quotes
             THEN SplitValue(val, 1, <<>>, <<>>, TRUE)
             ELSE [results |-> <<>>, sb |-> val, push |-> TRUE]
    IN IF r.push /\ (~allow_split \/ r.sb # <<>> \/ r.results # <<>> \/ saw_quotes)
       THEN Append(r.results, r.sb)
       ELSE r.results

NoExpansion ==
    [pc |-> "idle", params |-> <<>>, word |-> "", split |-> FALSE, fields |-> <<>>]

InitIdleExpand == expn = NoExpansion

InitExpand == \E args \in ParamVectors : expn = [NoExpansion EXCEPT !.pc = "start", !.params = args]

\* expand_word_split (allow_split) or expand_word on the word
Expand(word, allow_split) ==
    /\ expn.pc = "start"
    /\ expn' = [expn EXCEPT !.pc = "done", !.word = word, !.split = allow_split,
                            !.fields = expand_word_internal(word, allow_split,
                                                            expn.params)]
    /\ UNCHANGED <<vartab, scopes, crashed, diag, nops, heap, positional_args,
                   positional_count, calls, varsE, varsC, varsR, varsS, varsT, varsI,
                   parse, setcmd, twin, varsY>>

NextExpand == \E word \in {QuotedAt, BareAt}, allow_split \in BOOLEAN : Expand(word, allow_split)

\* C18: where fields are made, "$@" expands to the positional parameters
\* themselves: one field per parameter, each unchanged, none when there is no
\* parameter.
C18_QuotedAtGivesParameters ==
    (expn.pc = "done" /\ expn.word = QuotedAt /\ expn.split)
        => expn.fields = expn.params

\* ---------------------------------------------------------------------------
\* One program executed twice, with set -e and without (executor_execute on
\* trees whose commands are true and false)
\* ---------------------------------------------------------------------------

\* a program is a list of at most MaxProgram commands
MaxProgram == 2

\* the commands: true or false (st); if C; then B; fi; L || R; L && R;
\* ( A; B ); and test -z "$(A; echo x)" or test -n "$(A; echo x)", where A,
\* B, C, L and R are true or false
TwinItems ==
    {[k |-> "cmd", a |-> a, b |-> 0, op |-> ""] : a \in {0, 1}}
    \cup {[k |-> kk, a |-> a, b |-> b, op |-> ""] :
            kk \in {"if", "or", "and", "subshell"}, a \in {0, 1}, b \in {0, 1}}
    \cup {[k |-> "subst", a |-> a, b |-> 0, op |-> op] : a \in {0, 1}, op \in {"-z", "-n"}}
TwinPrograms == UNION {[1..k -> TwinItems] : k \in 1..MaxProgram}

\* the errexit test at the end of executor_execute
ErrexitExits(e, status, ignore) == e = 1 /\ status # 0 /\ ignore = 0

\* an errexit that ends the process with status 0
exit_zero(status) == 0

\* exit(status) in the errexit test: the status the process ends with
exit_status(status) == status % 256

\* try_test_fast_path for test -z s and test -n s
test_string(op, str) ==
    IF op = "-z" THEN (IF str # "" THEN 1 ELSE 0) ELSE (IF str = "" THEN 1 ELSE 0)

\* the result of executor_execute on a node: the status, whether the process
\* called exit in the errexit test, and whether a child whose status the
\* shell does not use was ended by that test
Ran(st, quit, lostChild) == [st |-> st, quit |-> quit, lost |-> lostChild]

\* the end of executor_execute on a node whose handler returned st, unless a
\* nested call has already called exit
Finish(st, quit, lostChild, e, ignore) ==
    Ran(st, quit \/ ErrexitExits(e, st, ignore), lostChild)

\* executor_execute on a command: execute_if and execute_and_or run their
\* first part with shell_ignore_errexit set and restore it; the child of a
\* subshell or of a command substitution inherits both flags and ends at its
\* first failure when the test lets it
RunItem(item, e, ignore) ==
    LET left == Finish(item.a, FALSE, FALSE, e, 1)
        right == Finish(item.b, FALSE, FALSE, e, ignore)
    IN CASE item.k = "cmd" -> Finish(item.a, FALSE, FALSE, e, ignore)
         [] item.k = "if" ->
              IF left.quit THEN left
              ELSE IF left.st = 0
              THEN Finish(right.st, right.quit, FALSE, e, ignore)
              ELSE Finish(0, FALSE, FALSE, e, ignore)
         [] item.k = "or" ->
              IF left.quit THEN left
              ELSE IF left.st # 0
              THEN Finish(right.st, right.quit, FALSE, e, ignore)
              ELSE Finish(left.st, FALSE, FALSE, e, ignore)
         [] item.k = "and" ->
              IF left.quit THEN left
              ELSE IF left.st = 0
              THEN Finish(right.st, right.quit, FALSE, e, ignore)
              ELSE Finish(left.st, FALSE, FALSE, e, ignore)
         [] item.k = "subshell" ->
              LET first == Finish(item.a, FALSE, FALSE, e, ignore)
                  child == IF first.quit THEN exit_status(first.st) ELSE item.b % 256
              IN Finish(child, FALSE, FALSE, e, ignore)
         [] OTHER ->
              LET first == Finish(item.a, FALSE, FALSE, e, ignore)
                  output == IF first.quit THEN "" ELSE "x"
              IN Finish(test_string(item.op, output), FALSE, first.quit, e, ignore)

\* execute_list over the commands of the program
RECURSIVE RunList(_, _, _)
RunList(items, e, ignore) ==
    LET r == RunItem(items[1], e, ignore)
    IN IF r.quit \/ Len(items) = 1 THEN r
       ELSE LET rest == RunList(Tail(items), e, ignore)
            IN Ran(rest.st, rest.quit, r.lost \/ rest.lost)

\* the shell on the program: the status it ends with
RunShell(items, e) ==
    LET r == RunList(items, e, 0)
    IN [code |-> IF r.quit THEN exit_status(r.st) ELSE r.st % 256, lost |-> r.lost]

NoRunResult == [code |-> -1, lost |-> FALSE]
NoTwin == [pc |-> "idle", program |-> <<>>, with |-> NoRunResult, without |-> NoRunResult]

InitIdleTwin == twin = NoTwin

InitTwin == \E p \in TwinPrograms : twin = [NoTwin EXCEPT !.pc = "start", !.program = p]

restW == <<vartab, scopes, crashed, diag, nops, heap, positional_args, positional_count,
           calls, varsE, varsC, varsR, varsS, varsT, varsI, parse, setcmd, expn, varsY>>

\* the execution with set -e active
RunWithErrexit ==
    /\ twin.pc = "start"
    /\ twin' = [twin EXCEPT !.pc = "first", !.with = RunShell(twin.program, 1)]
    /\ UNCHANGED restW

\* the identical execution with set -e inactive
RunWithoutErrexit ==
    /\ twin.pc = "first"
    /\ twin' = [twin EXCEPT !.pc = "done", !.without = RunShell(twin.program, 0)]
    /\ UNCHANGED restW

NextTwin ==
    \/ RunWithErrexit
    \/ RunWithoutErrexit

\* C20 as stated: a program that ends successfully with set -e active ends
\* successfully, with the same status, with set -e inactive.
C20_ErrexitSuccessIsSuccess ==
    (twin.pc = "done" /\ twin.with.code = 0) => twin.without.code = 0

\* C20 as amended: the same, for the executions with set -e in which no child
\* process whose status the shell does not use was ended by errexit.
C20_ErrexitSuccessWithoutLostChild ==
    (twin.pc = "done" /\ twin.with.code = 0 /\ ~twin.with.lost)
        => twin.without.code = 0

\* a program with a command substitution and a failure that set -e ignores
\* has ended successfully both times
C20_Witness ==
    /\ twin.pc = "done"
    /\ twin.with.code = 0
    /\ ~twin.with.lost
    /\ \E i \in 1..Len(twin.program) : twin.program[i].k = "subst"
    /\ \E i \in 1..Len(twin.program) :
          twin.program[i].k \in {"if", "or"} /\ twin.program[i].a # 0

\* ---------------------------------------------------------------------------
\* main on an input: try_fast_command before the lexer, the parser and the
\* executor (main.c), on inputs of a few characters
\* ---------------------------------------------------------------------------

\* an input has at most MaxInput characters
MaxInput == 4

\* the characters: x and a are letters, no command is called x, a or any
\* other word made of these characters except :
InputChars == {"x", "a", "=", ":", " ", "NL"}
InputTexts == UNION {[1..k -> InputChars] : k \in 0..MaxInput}

\* isalnum(c) || c == '_'
IsNameChar(c) == c \in {"x", "a"}

\* strchr: the index of the first c in str, 0 for none
FirstIndex(str, c) ==
    IF \E i \in 1..Len(str) : str[i] = c
    THEN CHOOSE i \in 1..Len(str) : str[i] = c /\ \A j \in 1..(i - 1) : str[j] # c
    ELSE 0

\* the variables an input sets: pairs of a name and a value, the last
\* assignment to a name wins
StoreSet(store, name, value) ==
    {pr \in store : pr[1] # name} \cup {<<name, value>>}

\* the text after its leading blanks
RECURSIVE SkipBlanks(_)
SkipBlanks(str) ==
    IF str # <<>> /\ str[1] = " " THEN SkipBlanks(Tail(str)) ELSE str

\* the text without its trailing blanks and newlines
RECURSIVE StripTrailing(_)
StripTrailing(str) ==
    IF str # <<>> /\ str[Len(str)] \in {" ", "NL"}
    THEN StripTrailing(SubSeq(str, 1, Len(str) - 1)) ELSE str

\* what a run leaves: the variables, the diagnostics written, the status
Outcome(store, out, status) == [store |-> store, out |-> out, status |-> status]

\* try_fast_command: handled is its return value, store the variable store
\* after it
try_fast_text(text, store) ==
    LET cmd == SkipBlanks(text)
        eq == FirstIndex(cmd, "=")
    IN IF cmd = <<>> THEN [handled |-> TRUE, store |-> store]
       ELSE IF FirstIndex(cmd, ";") # 0 THEN [handled |-> FALSE, store |-> store]
       ELSE IF eq > 1 /\ \A i \in 1..(eq - 1) : IsNameChar(cmd[i])
       THEN [handled |-> TRUE,
             store |-> StoreSet(store, SubSeq(cmd, 1, eq - 1),
                          StripTrailing(SkipBlanks(SubSeq(cmd, eq + 1, Len(cmd)))))]
       ELSE IF cmd[1] = ":" /\ (Len(cmd) = 1 \/ cmd[2] \in {" ", "NL"})
       THEN [handled |-> TRUE, store |-> store]
       ELSE [handled |-> FALSE, store |-> store]

\* the lexer: the pieces of str between the separators sep, empty ones left out
RECURSIVE SplitAt(_, _)
SplitAt(str, sep) ==
    LET i == FirstIndex(str, sep)
    IN IF str = <<>> THEN <<>>
       ELSE IF i = 0 THEN <<str>>
       ELSE IF i = 1 THEN SplitAt(Tail(str), sep)
       ELSE <<SubSeq(str, 1, i - 1)>> \o SplitAt(SubSeq(str, i + 1, Len(str)), sep)

\* posish_var_is_valid_name
posish_var_is_valid_name(name) ==
    name # <<>> /\ \A i \in 1..Len(name) : IsNameChar(name[i])

\* a word with an = that is not its first character
HasAssignmentShape(word) == FirstIndex(word, "=") > 1

\* parse_simple_command: how many of the words are assignments.  The first
\* word is one when its name is valid; after it every word with an = is
\* one until the command name is seen.
RECURSIVE AssignmentCount(_, _)
AssignmentCount(words, first) ==
    IF words = <<>> THEN 0
    ELSE LET w == words[1]
             isAssign == /\ HasAssignmentShape(w)
                         /\ (first => posish_var_is_valid_name(
                                          SubSeq(w, 1, FirstIndex(w, "=") - 1)))
         IN IF isAssign THEN 1 + AssignmentCount(Tail(words), FALSE) ELSE 0

\* execute_simple_command: the assignments are stored, then the command
\* word is run: : returns 0, any other word of these characters is not found
RECURSIVE StoreAssignments(_, _, _)
StoreAssignments(words, n, store) ==
    IF n = 0 THEN store
    ELSE LET w == words[1]
             eq == FirstIndex(w, "=")
         IN StoreAssignments(Tail(words), n - 1,
                StoreSet(store, SubSeq(w, 1, eq - 1), SubSeq(w, eq + 1, Len(w))))

EXIT_NOT_FOUND == 127

execute_line(words, oc) ==
    LET n == AssignmentCount(words, TRUE)
        store == StoreAssignments(words, n, oc.store)
    IN IF n = Len(words) THEN Outcome(store, oc.out, 0)
       ELSE IF words[n + 1] = <<":">> THEN Outcome(store, oc.out, 0)
       ELSE Outcome(store, Append(oc.out, words[n + 1]), EXIT_NOT_FOUND)

\* execute_list over the commands of the input
RECURSIVE execute_lines(_, _)
execute_lines(lines, oc) ==
    IF lines = <<>> THEN oc
    ELSE LET words == SplitAt(lines[1], " ")
         IN execute_lines(Tail(lines),
                IF words = <<>> THEN oc ELSE execute_line(words, oc))

\* lexer_init, parser_parse and executor_execute on the input
FullPath(text) == execute_lines(SplitAt(text, "NL"), Outcome({}, <<>>, 0))

\* main on a command string or run_script_file on a script
MainPath(text) ==
    LET f == try_fast_text(text, {})
    IN IF f.handled THEN Outcome(f.store, <<>>, 0) ELSE FullPath(text)

NoOutcome == Outcome({}, <<>>, -1)
NoFast == [pc |-> "idle", input |-> <<>>, main |-> NoOutcome, full |-> NoOutcome,
           handled |-> FALSE]

InitIdleFast == fast = NoFast

InitFast == \E text \in InputTexts : fast = [NoFast EXCEPT !.pc = "start", !.input = text]

\* the shell as it is
RunMain ==
    /\ fast.pc = "start"
    /\ fast' = [fast EXCEPT !.pc = "first", !.main = MainPath(fast.input),
                            !.handled = try_fast_text(fast.input, {}).handled]
    /\ UNCHANGED rest_fast

\* the same input through the lexer, the parser and the executor
RunFull ==
    /\ fast.pc = "first"
    /\ fast' = [fast EXCEPT !.pc = "done", !.full = FullPath(fast.input)]
    /\ UNCHANGED rest_fast

NextFast ==
    \/ RunMain
    \/ RunFull

\* C21: an input that the shortcut handles leaves the variable store, the
\* output and the exit status that the full path leaves for it.
C21_FastPathIsFullPath ==
    (fast.pc = "done" /\ fast.handled) => fast.main = fast.full

\* ---------------------------------------------------------------------------
\* The function table (functions.c), the definition of a function and the
\* calls that execute a body (execute_function_def, execute_simple_command)
\* ---------------------------------------------------------------------------

\* bodies ever cloned to the heap, calls in progress, nodes of a body
MaxBodies == 3
MaxFrames == 2
MaxBodyNodes == 2
MaxFuncCalls == 3

FuncNames == {"f", "g"}

\* a body on the heap is unused, live or freed; ncalls counts the calls made
NoFunc == [table |-> [n \in FuncNames |-> 0],
           bodies |-> [b \in 1..MaxBodies |-> "unused"],
           frames |-> <<>>,
           ncalls |-> 0,
           crashed |-> FALSE]

InitIdleFunc == fn = NoFunc

\* ast_free_heap on a body
ast_free_heap(bodies, b) == [bodies EXCEPT ![b] = "freed"]

\* func_define: the body of an existing function is freed and replaced, a
\* new function is linked into the table
func_define(f, name, body) ==
    IF f.table[name] # 0
    THEN [f EXCEPT !.bodies = ast_free_heap(@, f.table[name]), !.table[name] = body]
    ELSE [f EXCEPT !.table[name] = body]

\* func_lookup: the body, 0 for NULL
func_lookup(f, name) == f.table[name]

\* execute_function_def, at the top level or inside a body that is running:
\* ast_clone_to_heap makes the new body, then the table takes it
execute_function_def(name) ==
    /\ ~fn.crashed
    /\ \E b \in 1..MaxBodies :
          /\ fn.bodies[b] = "unused"
          /\ \A c \in 1..(b - 1) : fn.bodies[c] # "unused"
          /\ fn' = func_define([fn EXCEPT !.bodies[b] = "live"], name, b)
    /\ UNCHANGED rest_fn

\* execute_simple_command finds a function: executor_execute(func_body)
\* starts with the pointer the lookup returned
CallFunction(name) ==
    /\ ~fn.crashed
    /\ Len(fn.frames) < MaxFrames
    /\ fn.ncalls < MaxFuncCalls
    /\ func_lookup(fn, name) # 0
    /\ fn' = [fn EXCEPT !.frames = Append(@, [name |-> name,
                                               body |-> func_lookup(fn, name), at |-> 0]),
                        !.ncalls = @ + 1]
    /\ UNCHANGED rest_fn

\* the innermost call goes on to the next node of its body; reading a body
\* that was freed may end the process or read what is still there
ExecuteBodyNode ==
    /\ ~fn.crashed
    /\ fn.frames # <<>>
    /\ LET top == fn.frames[Len(fn.frames)]
       IN /\ top.at < MaxBodyNodes
          /\ \E dies \in BOOLEAN :
                /\ dies => fn.bodies[top.body] = "freed"
                /\ fn' = [fn EXCEPT !.frames[Len(fn.frames)].at = @ + 1, !.crashed = dies]
    /\ UNCHANGED rest_fn

\* executor_execute(func_body) returns
ReturnFromFunction ==
    /\ ~fn.crashed
    /\ fn.frames # <<>>
    /\ fn' = [fn EXCEPT !.frames = SubSeq(@, 1, Len(@) - 1)]
    /\ UNCHANGED rest_fn

NextFunc ==
    \/ \E name \in FuncNames : execute_function_def(name)
    \/ \E name \in FuncNames : CallFunction(name)
    \/ ExecuteBodyNode
    \/ ReturnFromFunction

\* C22: the body a call in progress is executing is never freed: it stays
\* allocated until that call returns, whatever is defined meanwhile.
C22_RunningBodyStaysAllocated ==
    \A i \in 1..Len(fn.frames) : fn.bodies[fn.frames[i].body] = "live"

\* ---------------------------------------------------------------------------
\* The children of the shell while main reads commands: sigchld_handler and
\* handler are installed, and commands fork and wait (execute_list,
\* execute_simple_command, execute_pipeline, execute_subshell, job_wait)
\* ---------------------------------------------------------------------------

\* processes forked in one run, signals handled in one run
MaxChildren == 3
MaxHandled == 2

Pids == 1..MaxChildren
NoPid == 0

\* the objects a handler may use: the three volatile sig_atomic_t flags
SigAtomicFlags == {"pending_signals", "any_pending_signal", "got_sigint"}

\* a status that was never written: waitpid failed and left the int alone
Uninit == -1

\* what WEXITSTATUS makes of an int that was never written
GarbageStatuses == {0, 1}

NoKids ==
    [child |-> [p \in Pids |-> "none"],     \* none, running, zombie, reaped
     code |-> [p \in Pids |-> 0],           \* the status a child exited with
     jobs |-> [p \in Pids |-> "none"],      \* the Job of pgid p: its status
     last_bg_pid |-> -1,
     bg |-> NoPid,                          \* the child of the last cmd &
     chld |-> FALSE,                        \* a SIGCHLD is pending
     blocked |-> FALSE,                     \* SIGCHLD is in the signal mask
     pc |-> "idle",
     pids |-> <<>>,                         \* the children the command waits for
     status |-> Uninit,                     \* the int of the last waitpid
     result |-> 0,                          \* the status the last command returned
     awaited |-> NoPid,                     \* the child that status was for
     pending |-> 0,                         \* pending_signals[SIGINT]
     handled |-> 0,
     touched |-> {}]                        \* what the handlers have read or written

InitIdleKids == kids = NoKids

InitKids == kids = [NoKids EXCEPT !.pc = "prompt"]

\* the lowest pid not used yet
FreePid(k) == CHOOSE p \in Pids : k.child[p] = "none" /\ \A q \in 1..(p - 1) : k.child[q] # "none"
HasFreePids(k, n) == Cardinality({p \in Pids : k.child[p] = "none"}) >= n

\* fork: a running child
fork(k, p) == [k EXCEPT !.child[p] = "running"]

\* job_add
job_add(k, p) == [k EXCEPT !.jobs[p] = "JOB_RUNNING"]

\* posish_var_set_last_bg_pid
posish_var_set_last_bg_pid(k, p) == [k EXCEPT !.last_bg_pid = p]

\* waitpid(pid, &status, 0) on a child that has ended: its status when it is
\* still a zombie, -1 with ECHILD and the int untouched when it was reaped
waitpid(k, p) ==
    IF k.child[p] = "zombie"
    THEN [k EXCEPT !.child[p] = "reaped", !.status = k.code[p]]
    ELSE k

\* job_update_status: job_find_by_pid, then the status of the Job found
job_update_status(k, p, st) ==
    IF k.jobs[p] # "none" THEN [k EXCEPT !.jobs[p] = st] ELSE k

\* the loop of sigchld_handler: waitpid(-1, WNOHANG) takes every zombie
RECURSIVE ReapAll(_, _)
ReapAll(k, ps) ==
    IF ps = {} THEN k
    ELSE LET p == CHOOSE q \in ps : TRUE
         IN ReapAll(job_update_status([k EXCEPT !.child[p] = "reaped"], p, "JOB_DONE"),
                    ps \ {p})

\* cmd &  (execute_list with async)
StartAsync ==
    /\ kids.pc = "prompt"
    /\ HasFreePids(kids, 1)
    /\ LET p == FreePid(kids)
       IN kids' = [posish_var_set_last_bg_pid(job_add(fork(kids, p), p), p)
                     EXCEPT !.bg = p, !.result = 0, !.awaited = NoPid]
    /\ UNCHANGED rest_kids

\* an external command: SIGCHLD is blocked, then fork, job_add and
\* posish_var_set_last_bg_pid
StartExternal ==
    /\ kids.pc = "prompt"
    /\ HasFreePids(kids, 1)
    /\ LET p == FreePid(kids)
       IN kids' = [posish_var_set_last_bg_pid(job_add(fork(kids, p), p), p)
                     EXCEPT !.blocked = TRUE, !.pc = "external", !.pids = <<p>>,
                            !.status = 0]
    /\ UNCHANGED rest_kids

\* job_wait and the end of the external command: the mask is restored
WaitExternal ==
    /\ kids.pc = "external"
    /\ kids.child[kids.pids[1]] = "zombie"
    /\ LET p == kids.pids[1]
           k == waitpid(kids, p)
       IN kids' = [k EXCEPT !.jobs[p] = "JOB_DONE", !.blocked = FALSE, !.pc = "prompt",
                            !.pids = <<>>, !.result = k.status, !.awaited = NoPid]
    /\ UNCHANGED rest_kids

\* execute_pipeline up to its first waitpid: two forks
StartPipeline ==
    /\ kids.pc = "prompt"
    /\ HasFreePids(kids, 2)
    /\ LET p1 == FreePid(kids)
           k == fork(kids, p1)
           p2 == FreePid(k)
       IN kids' = [fork(k, p2) EXCEPT !.pc = "pipe1", !.pids = <<p1, p2>>,
                                      !.status = Uninit]
    /\ UNCHANGED rest_kids

\* waitpid(pid1, &status1, 0)
PipelineWaitFirst ==
    /\ kids.pc = "pipe1"
    /\ kids.child[kids.pids[1]] \in {"zombie", "reaped"}
    /\ kids' = [waitpid(kids, kids.pids[1]) EXCEPT !.pc = "pipe2", !.status = Uninit]
    /\ UNCHANGED rest_kids

\* execute_subshell up to its waitpid: one fork
StartSubshell ==
    /\ kids.pc = "prompt"
    /\ HasFreePids(kids, 1)
    /\ LET p == FreePid(kids)
       IN kids' = [fork(kids, p) EXCEPT !.pc = "subshell", !.pids = <<p>>,
                                        !.status = Uninit]
    /\ UNCHANGED rest_kids

\* waitpid on the last child of the pipeline or on the child of the
\* subshell, then WIFEXITED and WEXITSTATUS of the int, written or not
WaitLast ==
    /\ kids.pc \in {"pipe2", "subshell"}
    /\ LET p == kids.pids[Len(kids.pids)]
           k == waitpid(kids, p)
       IN /\ kids.child[p] \in {"zombie", "reaped"}
          /\ \E garbage \in GarbageStatuses :
                kids' = [k EXCEPT !.pc = "prompt", !.pids = <<>>, !.awaited = p,
                                  !.result = IF k.status = Uninit THEN garbage
                                             ELSE k.status]
    /\ UNCHANGED rest_kids

\* a child ends: it is a zombie and the shell gets a SIGCHLD
ChildExits(p, code) ==
    /\ kids.child[p] = "running"
    /\ kids' = [kids EXCEPT !.child[p] = "zombie", !.code[p] = code, !.chld = TRUE]
    /\ UNCHANGED rest_kids

\* sigchld_handler, between any two steps of the main flow unless SIGCHLD
\* is blocked
sigchld_handler ==
    /\ kids.chld
    /\ ~kids.blocked
    /\ LET zombies == {p \in Pids : kids.child[p] = "zombie"}
       IN kids' = [ReapAll(kids, zombies) EXCEPT
                     !.chld = FALSE,
                     !.touched = @ \cup {"waitpid"}
                                   \cup (IF zombies # {} THEN {"jobs"} ELSE {})]
    /\ UNCHANGED rest_kids

\* handler(SIGINT), between any two steps of the main flow: it looks at
\* trap_commands[SIGINT] and sets the flags
sigint_handler ==
    /\ kids.handled < MaxHandled
    /\ kids' = [kids EXCEPT !.pending = 1, !.handled = @ + 1,
                            !.touched = @ \cup {"trap_commands"} \cup SigAtomicFlags]
    /\ UNCHANGED rest_kids

\* signal_check_pending at the top of the read loop
CheckPendingAtPrompt ==
    /\ kids.pc = "prompt"
    /\ kids.pending = 1
    /\ kids' = [kids EXCEPT !.pending = 0]
    /\ UNCHANGED rest_kids

NextKids ==
    \/ StartAsync
    \/ StartExternal
    \/ WaitExternal
    \/ StartPipeline
    \/ PipelineWaitFirst
    \/ StartSubshell
    \/ WaitLast
    \/ \E p \in Pids, code \in {0, 1} : ChildExits(p, code)
    \/ sigchld_handler
    \/ sigint_handler
    \/ CheckPendingAtPrompt

\* C24: whatever the handlers have read or written is one of the volatile
\* sig_atomic_t flags.
C24_HandlersTouchOnlyFlags == kids.touched \subseteq SigAtomicFlags

\* C28: the status reported for a pipeline or a subshell is the status its
\* awaited child ended with, whenever the handler ran.
C28_StatusIsRealWaitStatus ==
    kids.awaited # NoPid => kids.result = kids.code[kids.awaited]

\* C29: once cmd & has set $!, it stays the pid of the most recent
\* background child, whatever foreground commands run.
C29_LastBgPidIsBackgroundChild ==
    kids.bg # NoPid => kids.last_bg_pid = kids.bg

\* ---------------------------------------------------------------------------
\* Here-documents: parse_redirection and lexer_read_until_delimiter
\* ---------------------------------------------------------------------------

\* the input has at most MaxHereInput items
MaxHereInput == 5

\* an item of the input is a word, an operator, a blank or a newline
HereWords == {"cat", "E"}
HereItems == HereWords \cup {"<<", ";", " ", "NL"}

\* the inputs: two words never touch, since they would be one word
HereInputs ==
    {t \in UNION {[1..n -> HereItems] : n \in 0..MaxHereInput} :
        \A i \in 1..(Len(t) - 1) : ~(t[i] \in HereWords /\ t[i + 1] \in HereWords)}

EofToken == [type |-> "EOF", value |-> "", at |-> 0]

\* the first position at or after pos that holds no blank
RECURSIVE SkipSpace(_, _)
SkipSpace(input, pos) ==
    IF pos <= Len(input) /\ input[pos] = " " THEN SkipSpace(input, pos + 1) ELSE pos

\* lexer_next_token: the token at the position and the position after it
lexer_next_token(input, pos) ==
    LET p == SkipSpace(input, pos) IN
    IF p > Len(input) THEN [tok |-> EofToken, pos |-> p]
    ELSE IF input[p] = "NL" THEN [tok |-> [type |-> "NEWLINE", value |-> "NL", at |-> p], pos |-> p + 1]
    ELSE IF input[p] \in {"<<", ";"} THEN [tok |-> [type |-> "OPERATOR", value |-> input[p], at |-> p], pos |-> p + 1]
    ELSE [tok |-> [type |-> "WORD", value |-> input[p], at |-> p], pos |-> p + 1]

\* the position of the first newline at or after pos, or the end of the input
RECURSIVE EndOfLine(_, _)
EndOfLine(input, pos) ==
    IF pos > Len(input) \/ input[pos] = "NL" THEN pos ELSE EndOfLine(input, pos + 1)

\* lexer_read_until_delimiter: whole lines from the position up to a line
\* that is the delimiter; the body and the position after it
RECURSIVE lexer_read_until_delimiter(_, _, _, _)
lexer_read_until_delimiter(input, pos, delimiter, content) ==
    IF pos > Len(input) THEN [body |-> content, pos |-> pos]
    ELSE LET end == EndOfLine(input, pos)
             line == SubSeq(input, pos, end - 1)
             next == IF end <= Len(input) THEN end + 1 ELSE end
         IN  IF line = <<delimiter>> THEN [body |-> content, pos |-> next]
             ELSE lexer_read_until_delimiter(input, next, delimiter, Append(content, line))

\* the parser before it has read anything of the input
HereStart(input) ==
    [input |-> input, pos |-> 1, has_token |-> FALSE, current_token |-> EofToken,
     pc |-> "list", args |-> <<>>, commands |-> <<>>, reads |-> <<>>]

NoHere == [HereStart(<<>>) EXCEPT !.pc = "done"]

InitIdleHere == hd = NoHere

InitHere == \E input \in HereInputs : hd = HereStart(input)

\* parser_peek on the lexer: the lookahead token, read from the lexer when there is none
peek_token(h) ==
    IF h.has_token THEN h
    ELSE LET l == lexer_next_token(h.input, h.pos)
         IN  [h EXCEPT !.current_token = l.tok, !.pos = l.pos, !.has_token = TRUE]

\* parser_consume on the lexer: the lookahead token is used up
consume_token(h) == [peek_token(h) EXCEPT !.has_token = FALSE]

\* parse_list skips the newlines before a command and starts the command,
\* or ends with the input
StartOfList ==
    /\ hd.pc = "list"
    /\ LET h == peek_token(hd) IN
       hd' = IF h.current_token.type = "NEWLINE" THEN consume_token(h)
             ELSE IF h.current_token.type = "EOF" THEN [h EXCEPT !.pc = "done"]
             ELSE [h EXCEPT !.pc = "command", !.args = <<>>]
    /\ UNCHANGED rest_hd

\* parse_simple_command: a word is an argument of the command
ParseWord ==
    /\ hd.pc = "command"
    /\ LET h == peek_token(hd) IN
       /\ h.current_token.type = "WORD"
       /\ hd' = [consume_token(h) EXCEPT !.args = Append(@, h.current_token.value)]
    /\ UNCHANGED rest_hd

\* the command is over: with nothing in it the parser gives up
CommandOver(h) ==
    IF h.args = <<>> /\ ~(\E i \in 1..Len(h.reads) : h.reads[i].command = Len(h.commands) + 1)
    THEN [h EXCEPT !.pc = "done"]
    ELSE [h EXCEPT !.pc = "separator", !.commands = Append(@, h.args), !.args = <<>>]

\* parse_redirection: behind << and the delimiter word the body is read, after
\* the newline when the newline is the next token and at once otherwise
parse_redirection ==
    /\ hd.pc = "command"
    /\ LET h == peek_token(hd) IN
       /\ h.current_token.type = "OPERATOR"
       /\ IF h.current_token.value # "<<" THEN hd' = CommandOver(h)
          ELSE LET op == h.current_token
                   f == consume_token(consume_token(h))
                   filename == f.current_token
                   n == peek_token(f)
                   from == IF n.current_token.type = "NEWLINE" THEN consume_token(n) ELSE n
                   r == lexer_read_until_delimiter(from.input, from.pos, filename.value, <<>>)
               IN  hd' = IF filename.type # "WORD" THEN CommandOver(f)
                         ELSE [from EXCEPT !.pos = r.pos,
                                           !.reads = Append(@, [at |-> op.at, start |-> from.pos, body |-> r.body,
                                                                command |-> Len(from.commands) + 1])]
    /\ UNCHANGED rest_hd

\* parse_simple_command stops at a newline or at the end of the input
EndOfCommand ==
    /\ hd.pc = "command"
    /\ LET h == peek_token(hd) IN
       /\ h.current_token.type \in {"NEWLINE", "EOF"}
       /\ hd' = CommandOver(h)
    /\ UNCHANGED rest_hd

\* all the newlines at the position are used up
RECURSIVE SkipNewlines30(_)
SkipNewlines30(h) ==
    LET p == peek_token(h) IN
    IF p.current_token.type = "NEWLINE" THEN SkipNewlines30(consume_token(p)) ELSE p

\* parse_list behind a command: a ; or a newline leads to the next command
Separator ==
    /\ hd.pc = "separator"
    /\ LET h == peek_token(hd)
           t == h.current_token
       IN  hd' = IF t.type = "OPERATOR" /\ t.value = ";"
                 THEN LET s == SkipNewlines30(consume_token(h))
                      IN  [s EXCEPT !.pc = IF s.current_token.type = "EOF" THEN "done" ELSE "list"]
                 ELSE IF t.type = "NEWLINE" THEN [consume_token(h) EXCEPT !.pc = "list"]
                 ELSE [h EXCEPT !.pc = "done"]
    /\ UNCHANGED rest_hd

NextHere ==
    \/ StartOfList
    \/ ParseWord
    \/ parse_redirection
    \/ EndOfCommand
    \/ Separator

\* the position behind the first newline that follows position at, or the end
\* of the input
LineAfter(input, at) ==
    LET end == EndOfLine(input, at) IN IF end <= Len(input) THEN end + 1 ELSE end

\* C30: the body of a here-document is read from the line after the newline
\* that ends the command line carrying the <<: what follows the delimiter
\* word on that line is not consumed into the body.
C30_BodyStartsAfterCommandLine ==
    \A i \in 1..Len(hd.reads) : hd.reads[i].start = LineAfter(hd.input, hd.reads[i].at)

\* ---------------------------------------------------------------------------
\* The specifications
\* ---------------------------------------------------------------------------

\* the later sections at rest
InitIdleLate ==
    /\ InitIdleFast
    /\ InitIdleFunc
    /\ InitIdleKids
    /\ InitIdleHere

\* the earlier sections at rest
InitIdleEarly ==
    /\ InitStore /\ InitPositional /\ InitIdleExec /\ InitCmd /\ InitIdleRedir
    /\ InitIdleSimple /\ InitIdleSignals /\ InitIdleParse /\ InitIdleSet /\ InitIdleExpand
    /\ InitIdleTwin

InitVars ==
    /\ InitStore /\ InitPositional /\ InitIdleExec /\ InitCmd /\ InitIdleRedir
    /\ InitIdleSimple /\ InitIdleSignals /\ InitIdleParse /\ InitIdleSet /\ InitIdleExpand /\ InitIdleTwin
    /\ InitIdleLate

SpecVars == InitVars /\ [][NextVars]_vars

SpecPos == InitVars /\ [][NextPos]_vars

InitProgram ==
    /\ InitStore /\ InitPositional /\ InitExec /\ InitCmd /\ InitIdleRedir
    /\ InitIdleSimple /\ InitIdleSignals /\ InitIdleParse /\ InitIdleSet /\ InitIdleExpand /\ InitIdleTwin
    /\ InitIdleLate

SpecExec == InitProgram /\ [][NextExec]_vars

SpecCmd == InitVars /\ [][NextCmd]_vars

InitFds ==
    /\ InitStore /\ InitPositional /\ InitIdleExec /\ InitCmd /\ InitRedir
    /\ InitIdleSimple /\ InitIdleSignals /\ InitIdleParse /\ InitIdleSet /\ InitIdleExpand /\ InitIdleTwin
    /\ InitIdleLate

SpecRedir == InitFds /\ [][NextRedir]_vars

InitCommand ==
    /\ InitStore /\ InitPositional /\ InitIdleExec /\ InitRedir /\ InitSimple
    /\ InitIdleSignals /\ InitIdleParse /\ InitIdleSet /\ InitIdleExpand /\ InitIdleTwin
    /\ InitIdleLate

SpecSimple == InitCommand /\ [][NextSimple]_vars

InitTrap ==
    /\ InitStore /\ InitPositional /\ InitIdleExec /\ InitCmd /\ InitIdleRedir
    /\ InitIdleSimple /\ InitSignals /\ InitIdleParse /\ InitIdleSet /\ InitIdleExpand /\ InitIdleTwin
    /\ InitIdleLate

SpecTrap == InitTrap /\ [][NextTrap]_vars

InitExit ==
    /\ InitStore /\ InitPositional /\ InitShell /\ InitCmd /\ InitIdleRedir
    /\ InitIdleSimple /\ InitIdleSignals /\ InitIdleParse /\ InitIdleSet /\ InitIdleExpand /\ InitIdleTwin
    /\ InitIdleLate

SpecExit == InitExit /\ [][NextExit]_vars

SpecExitTrap == InitExit /\ [][NextExitTrap]_vars

SpecInt == InitProgram /\ [][NextInt]_vars

SpecSentinel == InitProgram /\ [][NextSentinel]_vars

InitMain ==
    /\ InitStore /\ InitPositional /\ InitIdleExec /\ InitCmd /\ InitIdleRedir
    /\ InitIdleSimple /\ InitIdleSignals /\ InitParse /\ InitIdleSet /\ InitIdleExpand /\ InitIdleTwin
    /\ InitIdleLate

SpecParse == InitMain /\ [][NextParse]_vars

SpecSet == InitVars /\ [][NextSet]_vars

InitWord ==
    /\ InitStore /\ InitPositional /\ InitIdleExec /\ InitCmd /\ InitIdleRedir
    /\ InitIdleSimple /\ InitIdleSignals /\ InitIdleParse /\ InitIdleSet /\ InitExpand
    /\ InitIdleTwin
    /\ InitIdleLate

SpecExpand == InitWord /\ [][NextExpand]_vars

InitTwice ==
    /\ InitStore /\ InitPositional /\ InitIdleExec /\ InitCmd /\ InitIdleRedir
    /\ InitIdleSimple /\ InitIdleSignals /\ InitIdleParse /\ InitIdleSet /\ InitIdleExpand
    /\ InitTwin
    /\ InitIdleLate

SpecTwin == InitTwice /\ [][NextTwin]_vars

InitShortcut ==
    /\ InitIdleEarly
    /\ InitIdleFunc /\ InitIdleKids /\ InitIdleHere
    /\ InitFast

SpecFast == InitShortcut /\ [][NextFast]_vars

InitFunctions ==
    /\ InitIdleEarly
    /\ InitIdleFast /\ InitIdleKids /\ InitIdleHere
    /\ fn = NoFunc

SpecFunc == InitFunctions /\ [][NextFunc]_vars

InitReadLoop ==
    /\ InitIdleEarly
    /\ InitIdleFast /\ InitIdleFunc /\ InitIdleHere
    /\ InitKids

SpecKids == InitReadLoop /\ [][NextKids]_vars

InitHeredoc ==
    /\ InitIdleEarly
    /\ InitIdleFast /\ InitIdleFunc /\ InitIdleKids
    /\ InitHere

SpecHere == InitHeredoc /\ [][NextHere]_vars

=============================================================================
